---------------------------- MODULE Spec2Model ----------------------------
(***************************************************************************)
(* Model of LemmyAI/gameserver.                                            *)
(*                                                                         *)
(*   SpecGame  : game.State of one worker (src/internal/game/engine_test.go*)
(*               lines 295-580): AddPlayer, AddPlayerWithID, RemovePlayer, *)
(*               ApplyInput, ProcessInputs, Tick.                          *)
(*   SpecRoom  : room.Registry and room.Room (src/internal/room/room.go).  *)
(*   SpecBridge: the gateway (src/unnamed/part_004 lines 238-957) over the *)
(*               registry and the per-room workers (src/cmd/server/main.go *)
(*               lines 1-269).                                             *)
(*                                                                         *)
(* Every specification constrains all variables; the variables of the      *)
(* components a specification does not run stay at their initial value.    *)
(***************************************************************************)
EXTENDS Integers, Sequences, FiniteSets, TLC

(***************************************************************************)
(* Bounds of the model.                                                    *)
(***************************************************************************)
\* largest input sequence number a client sends
MaxSeq == 2
\* longest per-player input queue explored (the code's queue is unbounded)
MaxQueue == 2
\* last instant of the wall clock (time.Now()) in SpecGame and SpecAdmission
MaxNow == 1
\* last instant of the wall clock in SpecRoom
MaxClock == 1
\* most datagrams waiting in one UDP socket's receive buffer
MaxInFlight == 1
\* most join_room and leave_room messages one connection sends
MaxMsgs == 2
\* most PeerConnection objects one manager makes
MaxPCs == 2
\* most webrtc_offer messages the sessions of one room send
MaxOffers == 3
\* most media tracks that arrive at one manager
MaxTracks == 2
\* most Registry.Join calls in progress together with the Rooms out of the
\* registry that such calls have held
MaxOrphans == 2

VARIABLES
    now,        \* wall clock, time.Now()
    \* ---- game.State
    config,     \* State.config
    players,    \* State.players : id -> Player
    ret,        \* the last call made on the component and what it returned
    applied,    \* history: id -> sequence numbers ProcessInputs applied to the
                \* player object currently stored under that id
    \* ---- room.Registry
    regConfig,  \* Registry.config
    rooms,      \* Registry.rooms : id -> Room
    expiredCalls, \* room ids whose `go r.onRoomExpired(room)` has not run yet
    \* ---- the gateway (Bridge) and the workers it spawns
    clients,    \* Bridge.clients : connection -> BrowserClient
    closed,     \* connections whose handleWS has returned
    msgs,       \* connection -> join_room and leave_room messages it sent
    gameRooms,  \* Bridge.gameRooms : room id -> GameRoom
    workers,    \* UDP port -> the server process listening on it
    \* ---- webrtc.Manager, the SFU of one room
    pcs,            \* the PeerConnection objects made so far, in order
    peerConns,      \* Manager.peerConns : playerID -> index into pcs
    incomingTracks, \* Manager.incomingTracks : playerID -> track kinds
    audioTracks,    \* Manager.audioTracks : playerID -> local track
    videoTracks,    \* Manager.videoTracks : playerID -> local track
    renegotiateChan, \* Manager.renegotiateChan, oldest event first
    offers,         \* playerID -> the HandleOffer call it has in progress
    forwards,       \* the forwardTrackToOthers goroutines before their RTP loop
    \* ---- game.Engine and its DeltaTracker
    tickNo,         \* State.tick
    lastStates,     \* DeltaTracker.lastStates : id -> playerSnapshot
    deltaPlayers,   \* the player list a direct caller of ComputeDelta holds
    emitted,        \* history: id -> the values last returned in `changed`
    departed,       \* history: ids Engine.RemovePlayer took out after a delta
                    \* had carried them, and no delta has listed as removed
    running,        \* Engine.running
    stopCh,         \* Engine.stopCh: "open" or "closed"
    loops,          \* the tickLoop goroutines that have not returned
    stopper,        \* the caller of Start and Stop: "idle", or "waiting" in
                    \* Stop's e.wg.Wait()
    crashed,        \* a goroutine of the process has panicked
    \* ---- the input path from a session to the worker of its room
    wire,           \* PlayerInput datagrams written to gr.UDPConn that the
                    \* worker has not read, oldest first
    lastSent,       \* history: connection -> Sequence of the PlayerInput
                    \* forwarded last for it, 0 before the first
    \* ---- the mutexes of the gateway process and the goroutines using them
    acts,           \* goroutine -> the function it runs and its position
    locks,          \* sync.RWMutex -> its writer, readers and blocked Lock
                    \* callers
    \* ---- Registry.Join between its lookup and its Room.Join
    joining,        \* caller -> the room id and name it passed and the Room
                    \* it found: 0 for the one in r.rooms, else its place
                    \* in orphans
    orphans         \* the Rooms taken out of r.rooms that a Join still holds

gameVars == <<config, players, applied>>
roomVars == <<regConfig, rooms, expiredCalls>>
bridgeVars == <<clients, closed, msgs, gameRooms, workers>>
sfuVars == <<pcs, peerConns, incomingTracks, audioTracks, videoTracks,
             renegotiateChan, offers, forwards>>
deltaVars == <<lastStates, deltaPlayers, emitted, departed>>
lifeVars == <<running, stopCh, loops, stopper, crashed>>
engineVars == <<tickNo, deltaVars, lifeVars>>
inputVars == <<wire, lastSent>>
lockVars == <<acts, locks>>
joinVars == <<joining, orphans>>
vars == <<now, ret, gameVars, roomVars, bridgeVars, sfuVars, engineVars,
          inputVars, lockVars, joinVars>>

\* what the calls on game.State leave alone
GameFrame ==
    UNCHANGED <<roomVars, bridgeVars, sfuVars, engineVars, inputVars, lockVars,
                joinVars>>

\* what the calls on the registry leave alone
RoomFrame ==
    UNCHANGED <<gameVars, bridgeVars, sfuVars, engineVars, inputVars, lockVars,
                joinVars>>

(***************************************************************************)
(* game.State                                                              *)
(***************************************************************************)
PlayerIDs == {"p1", "p2", "p3"}

\* the ids SpecGame draws from
GameIDs == {"p1", "p2"}

\* Config values explored by SpecGame: DefaultConfig's shape with a small
\* world.  dt is 1/TickRate; PlayerSpeed is a multiple of TickRate so that
\* velocity*dt is a whole number of world units.
Configs ==
    { [TickRate |-> 1, MaxPlayers |-> 1, PlayerSpeed |-> 1,
       WorldWidth |-> 2, WorldHeight |-> 2],
      [TickRate |-> 2, MaxPlayers |-> 1, PlayerSpeed |-> 6,
       WorldWidth |-> 3, WorldHeight |-> 2] }

\* Config values explored by SpecAdmission (TestAddPlayerMaxPlayers' cap)
AdmissionConfigs ==
    { [TickRate |-> 1, MaxPlayers |-> 2, PlayerSpeed |-> 1,
       WorldWidth |-> 2, WorldHeight |-> 2] }

\* Input.Movement values a client may send (the worker does not clamp them):
\* right and down, left and (out of range) up
Movements == { <<1, -1>>, <<-1, 2>> }

Inputs == [Sequence : 0..MaxSeq, Movement : Movements]

NoRet == [op |-> "none"]

\* the Player built by AddPlayer / AddPlayerWithID
NewPlayer(id) ==
    [ID |-> id,
     Position |-> <<config.WorldWidth \div 2, config.WorldHeight \div 2>>,
     Velocity |-> <<0, 0>>,
     LastInput |-> 0,
     LastSeen |-> now,
     InputQueue |-> <<>>]

PlayerCount == Cardinality(DOMAIN players)

\* a call that admits one player beyond the cap
RoomIsFullOffByOne == PlayerCount > config.MaxPlayers

\* len(s.players) >= s.config.MaxPlayers
RoomIsFull == PlayerCount >= config.MaxPlayers

Put(f, k, v) == [x \in DOMAIN f \cup {k} |-> IF x = k THEN v ELSE f[x]]

Drop(f, k) == [x \in DOMAIN f \ {k} |-> f[x]]

\* AddPlayer: id is what uuid.New().String()[:8] returned; a collision
\* overwrites the player stored under it
AddPlayer(id) ==
    /\ IF RoomIsFull
       THEN /\ ret' = [op |-> "AddPlayer", id |-> id, ok |-> FALSE]
            /\ UNCHANGED <<players, applied>>
       ELSE /\ players' = Put(players, id, NewPlayer(id))
            /\ applied' = [applied EXCEPT ![id] = {}]
            /\ ret' = [op |-> "AddPlayer", id |-> id, ok |-> TRUE]
    /\ UNCHANGED <<now, config>>
    /\ GameFrame

AddPlayerWithID(id) ==
    /\ IF id \in DOMAIN players \/ RoomIsFull
       THEN /\ ret' = [op |-> "AddPlayerWithID", id |-> id, ok |-> FALSE]
            /\ UNCHANGED <<players, applied>>
       ELSE /\ players' = Put(players, id, NewPlayer(id))
            /\ applied' = [applied EXCEPT ![id] = {}]
            /\ ret' = [op |-> "AddPlayerWithID", id |-> id, ok |-> TRUE]
    /\ UNCHANGED <<now, config>>
    /\ GameFrame

RemovePlayer(id) ==
    /\ players' = Drop(players, id)
    /\ applied' = [applied EXCEPT ![id] = {}]
    /\ ret' = [op |-> "RemovePlayer", id |-> id, ok |-> TRUE]
    /\ UNCHANGED <<now, config>>
    /\ GameFrame

\* an ApplyInput that accepts the sequence it applied last
StaleStrict(player, input) == input.Sequence < player.LastInput

\* an ApplyInput without the stale check
StaleNever(player, input) == FALSE

\* input.Sequence <= player.LastInput
Stale(player, input) == input.Sequence <= player.LastInput

\* ApplyInput queues the input; the model stops a queue at MaxQueue entries
ApplyInput(id, input) ==
    /\ id \in DOMAIN players => Len(players[id].InputQueue) < MaxQueue
    /\ IF id \notin DOMAIN players
       THEN /\ ret' = [op |-> "ApplyInput", id |-> id, seq |-> input.Sequence,
                       ok |-> FALSE]
            /\ UNCHANGED players
       ELSE IF Stale(players[id], input)
       THEN /\ ret' = [op |-> "ApplyInput", id |-> id, seq |-> input.Sequence,
                       ok |-> FALSE]
            /\ UNCHANGED players
       ELSE /\ players' = [players EXCEPT
                    ![id].InputQueue = Append(@, input),
                    ![id].LastSeen = now]
            /\ ret' = [op |-> "ApplyInput", id |-> id, seq |-> input.Sequence,
                       ok |-> TRUE]
    /\ UNCHANGED <<now, config, applied>>
    /\ GameFrame

\* velocity * dt, dt = 1 / TickRate
MulDt(v) == v \div config.TickRate

\* a clamp that forgets the upper world bound
ClampLow(v, hi) == IF v < 0 THEN 0 ELSE v

\* if v < 0 { v = 0 }; if v > hi { v = hi }
Clamp(v, hi) ==
    LET a == IF v < 0 THEN 0 ELSE v
    IN  IF a > hi THEN hi ELSE a

\* the body of ProcessInputs' inner loop, for one input
ApplyOne(player, input) ==
    LET vx == input.Movement[1] * config.PlayerSpeed
        vy == input.Movement[2] * config.PlayerSpeed
        x == Clamp(player.Position[1] + MulDt(vx), config.WorldWidth)
        y == Clamp(player.Position[2] + MulDt(vy), config.WorldHeight)
    IN  [player EXCEPT !.Velocity = <<vx, vy>>,
                       !.Position = <<x, y>>,
                       !.LastInput = input.Sequence]

RECURSIVE ApplyAllNewestFirst(_, _)
\* a ProcessInputs that walks the queue from its newest entry
ApplyAllNewestFirst(player, queue) ==
    IF queue = <<>> THEN player
    ELSE ApplyAllNewestFirst(ApplyOne(player, queue[Len(queue)]),
                             SubSeq(queue, 1, Len(queue) - 1))

RECURSIVE ApplyAll(_, _)
\* for _, input := range player.InputQueue { ... }
ApplyAll(player, queue) ==
    IF queue = <<>> THEN player
    ELSE ApplyAll(ApplyOne(player, Head(queue)), Tail(queue))

\* one player's share of ProcessInputs: apply the queue, then clear it
ProcessPlayer(player) ==
    [ApplyAll(player, player.InputQueue) EXCEPT !.InputQueue = <<>>]

QueuedSeqs(player) ==
    {player.InputQueue[i].Sequence : i \in 1..Len(player.InputQueue)}

ProcessInputs ==
    /\ players' = [id \in DOMAIN players |-> ProcessPlayer(players[id])]
    /\ applied' = [id \in PlayerIDs |->
                    IF id \in DOMAIN players
                    THEN applied[id] \cup QueuedSeqs(players[id])
                    ELSE applied[id]]
    /\ ret' = [op |-> "ProcessInputs"]
    /\ UNCHANGED <<now, config>>
    /\ GameFrame

\* the wall clock advances
Advance ==
    /\ now < MaxNow
    /\ now' = now + 1
    /\ UNCHANGED <<config, players, ret, applied>>
    /\ GameFrame

\* the registry of a specification that runs none
NoRegistry ==
    /\ regConfig = [MaxPlayers |-> 0, RoomTTL |-> 0]
    /\ rooms = <<>>
    /\ expiredCalls = {}

\* webrtc.NewManager(roomID), and the manager of a specification that runs
\* none
NewManager ==
    /\ pcs = <<>>
    /\ peerConns = <<>>
    /\ incomingTracks = <<>>
    /\ audioTracks = <<>>
    /\ videoTracks = <<>>
    /\ renegotiateChan = <<>>
    /\ offers = <<>>
    /\ forwards = {}

\* the fields NewEngine(config, broadcaster) sets besides the state, and the
\* engine of a specification that runs none
NewEngine ==
    /\ tickNo = 0
    /\ lastStates = <<>>
    /\ deltaPlayers = <<>>
    /\ emitted = <<>>
    /\ departed = {}
    /\ running = FALSE
    /\ stopCh = "open"
    /\ loops = 0
    /\ stopper = "idle"
    /\ crashed = FALSE

\* the input path before any input frame, and that of a specification that
\* runs none
NoInputs ==
    /\ wire = <<>>
    /\ lastSent = <<>>

\* the goroutines and mutexes of a specification that follows none
NoLocks ==
    /\ acts = <<>>
    /\ locks = <<>>

\* no Registry.Join is between its lookup and its Room.Join
NoJoins ==
    /\ joining = <<>>
    /\ orphans = <<>>

\* the gateway of a specification that runs none
NoBridge ==
    /\ clients = <<>>
    /\ closed = {}
    /\ msgs = <<>>
    /\ gameRooms = <<>>
    /\ workers = <<>>

InitGame ==
    /\ now = 0
    /\ config \in Configs
    /\ players = <<>>
    /\ ret = NoRet
    /\ applied = [id \in PlayerIDs |-> {}]
    /\ NoRegistry
    /\ NoBridge
    /\ NewManager
    /\ NewEngine
    /\ NoInputs
    /\ NoLocks
    /\ NoJoins

NextGame ==
    \/ \E id \in GameIDs : AddPlayer(id)
    \/ \E id \in GameIDs : AddPlayerWithID(id)
    \/ \E id \in GameIDs : RemovePlayer(id)
    \/ \E id \in GameIDs, input \in Inputs : ApplyInput(id, input)
    \/ ProcessInputs
    \/ Advance

SpecGame == InitGame /\ [][NextGame]_vars

\* The same State under the admission calls alone, with a cap of two
InitAdmission ==
    /\ now = 0
    /\ config \in AdmissionConfigs
    /\ players = <<>>
    /\ ret = NoRet
    /\ applied = [id \in PlayerIDs |-> {}]
    /\ NoRegistry
    /\ NoBridge
    /\ NewManager
    /\ NewEngine
    /\ NoInputs
    /\ NoLocks
    /\ NoJoins

NextAdmission ==
    \/ \E id \in PlayerIDs : AddPlayer(id)
    \/ \E id \in PlayerIDs : AddPlayerWithID(id)
    \/ \E id \in PlayerIDs : RemovePlayer(id)
    \/ ProcessInputs
    \/ Advance

SpecAdmission == InitAdmission /\ [][NextAdmission]_vars

(***************************************************************************)
(* Claims about game.State                                                 *)
(***************************************************************************)
\* A step is a call of one of ops: every call records itself in ret, and
\* the only other step, Advance, moves the clock.
CallStep(ops) == ret'.op \in ops /\ now' = now

\* C1: over every ApplyInput and ProcessInputs call, the LastInput of every
\* player is non-decreasing, also when inputs with sequence numbers above
\* LastInput are queued in any order between two ticks.
C1_LastInputMonotone ==
    [][CallStep({"ApplyInput", "ProcessInputs"}) =>
        \A id \in DOMAIN players :
            /\ id \in DOMAIN players'
            /\ players'[id].LastInput >= players[id].LastInput]_vars

\* C1 witness: a tick has applied sequence 2 and then sequence 1 from one
\* queue, so LastInput ended at 1 with 2 already applied.
C1_Witness ==
    /\ ret.op = "ProcessInputs"
    /\ \E id \in DOMAIN players :
        /\ players[id].LastInput = 1
        /\ 2 \in applied[id]

NoDupSeq(queue) ==
    \A i, j \in 1..Len(queue) : queue[i].Sequence = queue[j].Sequence => i = j

\* C2: no sequence number is applied to a player's position more than
\* once: what a ProcessInputs call applies holds no sequence twice and
\* none that an earlier call applied to that player.
C2_NoSequenceAppliedTwice ==
    [][CallStep({"ProcessInputs"}) =>
        \A id \in DOMAIN players :
            /\ NoDupSeq(players[id].InputQueue)
            /\ QueuedSeqs(players[id]) \cap applied[id] = {}]_vars

\* C3: ApplyInput returns false and changes nothing of any player when the
\* id is not a player or the sequence is <= LastInput; it returns true and
\* enqueues the input when the sequence is LastInput + 1.
C3_ApplyInputContract ==
    [][CallStep({"ApplyInput"}) =>
        LET id == ret'.id
            seq == ret'.seq
        IN  /\ (id \notin DOMAIN players \/ seq <= players[id].LastInput)
                => (ret'.ok = FALSE /\ players' = players)
            /\ (id \in DOMAIN players /\ seq = players[id].LastInput + 1)
                => LET q == players[id].InputQueue
                       q2 == players'[id].InputQueue
                   IN  /\ ret'.ok = TRUE
                       /\ Len(q2) = Len(q) + 1
                       /\ SubSeq(q2, 1, Len(q)) = q
                       /\ q2[Len(q2)].Sequence = seq]_vars

\* C3 witness: an input whose sequence equals a non-zero LastInput was
\* rejected.
C3_Witness ==
    /\ ret.op = "ApplyInput"
    /\ ret.ok = FALSE
    /\ ret.id \in DOMAIN players
    /\ players[ret.id].LastInput > 0
    /\ ret.seq = players[ret.id].LastInput

C5_AdmissionCap ==
    /\ [](PlayerCount <= config.MaxPlayers)
    /\ [][(CallStep({"AddPlayer", "AddPlayerWithID"})
            /\ PlayerCount >= config.MaxPlayers)
          => (ret'.ok = FALSE /\ players' = players)]_vars

\* C5 witness: a room holding MaxPlayers players refused a new id.
C5_Witness ==
    /\ ret.op \in {"AddPlayer", "AddPlayerWithID"}
    /\ ret.ok = FALSE
    /\ ret.id \notin DOMAIN players
    /\ PlayerCount = config.MaxPlayers
    /\ config.MaxPlayers = 2


(***************************************************************************)
(* room.Registry and room.Room                                             *)
(***************************************************************************)
\* the ids generateID() returns
RoomIDs == {"r1", "r2"}

\* the player ids and display names the callers of Join pass
MemberIDs == {"p1", "p2"}

Names == {"ann", "bob"}

\* Config values explored by SpecRoom: DefaultConfig's shape with a small
\* cap; RoomTTL counts instants of the clock
RoomConfigs ==
    { [MaxPlayers |-> 1, RoomTTL |-> 0],
      [MaxPlayers |-> 2, RoomTTL |-> 0] }

ErrRoomNotFound == "room not found"

ErrRoomFull == "room is full"

\* the Room built by Registry.Create
NewRoom(id) ==
    [ID |-> id, CreatedAt |-> now, Players |-> <<>>, HostID |-> "",
     MaxPlayer |-> regConfig.MaxPlayers, lastActivity |-> now]

\* what the calls that take Rooms out of r.rooms leave alone
RegistryFrame ==
    UNCHANGED <<gameVars, bridgeVars, sfuVars, engineVars, inputVars, lockVars>>

\* the Registry.Join calls in progress and the Rooms they hold once the
\* rooms of the ids have left r.rooms: a Room a Join has found stays
\* reachable through the pointer the Join holds
RECURSIVE Detach(_, _, _)
Detach(js, os, ids) ==
    IF ids = {} THEN [joining |-> js, orphans |-> os]
    ELSE LET id == CHOOSE x \in ids : TRUE
             holders == { p \in DOMAIN js :
                            js[p].roomID = id /\ js[p].at = 0 }
         IN IF holders = {}
            THEN Detach(js, os, ids \ {id})
            ELSE Detach([p \in DOMAIN js |->
                           IF p \in holders
                           THEN [js[p] EXCEPT !.at = Len(os) + 1]
                           ELSE js[p]],
                        Append(os, rooms[id]), ids \ {id})

\* Registry.Create: id is what generateID() returned; the new room is
\* stored under it whatever was there
Create(id) ==
    /\ rooms' = Put(rooms, id, NewRoom(id))
    /\ joining' = Detach(joining, orphans, {id} \cap DOMAIN rooms).joining
    /\ orphans' = Detach(joining, orphans, {id} \cap DOMAIN rooms).orphans
    /\ ret' = [op |-> "Create", room |-> id]
    /\ UNCHANGED <<now, regConfig, expiredCalls>>
    /\ RegistryFrame

\* Room.Join's error: the head count is tested first
JoinErr(room, playerID) ==
    IF Cardinality(DOMAIN room.Players) >= room.MaxPlayer
    THEN ErrRoomFull ELSE ""

\* the member entry a successful Room.Join returns
JoinedPlayer(room, playerID, playerName) ==
    IF playerID \in DOMAIN room.Players
    THEN room.Players[playerID]
    ELSE [ID |-> playerID, Name |-> playerName, JoinedAt |-> now,
          IsHost |-> (DOMAIN room.Players = {})]

\* the room after a successful Room.Join
JoinedRoom(room, playerID, playerName) ==
    IF playerID \in DOMAIN room.Players
    THEN room
    ELSE LET player == JoinedPlayer(room, playerID, playerName)
         IN [room EXCEPT
                !.Players = Put(@, playerID, player),
                !.HostID = IF player.IsHost THEN playerID ELSE @,
                !.lastActivity = now]

\* Registry.Join: the lookup, then Room.Join on the room found
Join(roomID, playerID, playerName) ==
    /\ IF roomID \notin DOMAIN rooms
       THEN /\ ret' = [op |-> "Join", room |-> roomID, id |-> playerID,
                       err |-> ErrRoomNotFound]
            /\ UNCHANGED rooms
       ELSE IF JoinErr(rooms[roomID], playerID) # ""
       THEN /\ ret' = [op |-> "Join", room |-> roomID, id |-> playerID,
                       err |-> JoinErr(rooms[roomID], playerID)]
            /\ UNCHANGED rooms
       ELSE /\ rooms' = [rooms EXCEPT ![roomID] =
                            JoinedRoom(@, playerID, playerName)]
            /\ ret' = [op |-> "Join", room |-> roomID, id |-> playerID,
                       err |-> "",
                       player |-> JoinedPlayer(rooms[roomID], playerID,
                                               playerName)]
    /\ UNCHANGED <<now, regConfig, expiredCalls>>
    /\ RoomFrame

\* Registry.Join under r.mu: the lookup of the room.  The caller has no
\* other Join in progress.
RegistryJoin(roomID, playerID, playerName) ==
    /\ playerID \notin DOMAIN joining
    /\ Len(orphans) + Cardinality(DOMAIN joining) < MaxOrphans
    /\ IF roomID \notin DOMAIN rooms
       THEN /\ ret' = [op |-> "Join", room |-> roomID, id |-> playerID,
                       err |-> ErrRoomNotFound]
            /\ UNCHANGED joining
       ELSE /\ joining' = Put(joining, playerID,
                              [roomID |-> roomID, name |-> playerName,
                               at |-> 0])
            /\ ret' = [op |-> "lookup", room |-> roomID, id |-> playerID]
    /\ UNCHANGED <<now, roomVars, orphans>>
    /\ RegistryFrame

\* Registry.Join after r.mu.Unlock(): Room.Join on the Room found, and the
\* return; registered tells whether that Room is the one r.rooms holds
RoomJoin(playerID) ==
    /\ playerID \in DOMAIN joining
    /\ LET j == joining[playerID]
           room == IF j.at = 0 THEN rooms[j.roomID] ELSE orphans[j.at]
           err == JoinErr(room, playerID)
           joined == IF err = "" THEN JoinedRoom(room, playerID, j.name)
                     ELSE room
       IN /\ IF j.at = 0
             THEN /\ rooms' = [rooms EXCEPT ![j.roomID] = joined]
                  /\ UNCHANGED orphans
             ELSE /\ orphans' = [orphans EXCEPT ![j.at] = joined]
                  /\ UNCHANGED rooms
          /\ ret' = [op |-> "Join", room |-> j.roomID, id |-> playerID,
                     err |-> err, registered |-> (j.at = 0),
                     member |-> (playerID \in DOMAIN joined.Players)]
    /\ joining' = Drop(joining, playerID)
    /\ UNCHANGED <<now, regConfig, expiredCalls>>
    /\ RegistryFrame

\* playerID == room.HostID && len(room.Players) > 0
HostLeft(room, playerID, rest) ==
    playerID = room.HostID /\ DOMAIN rest # {}

\* the rooms Room.Leave may produce: the new host is the first id the range
\* over the map yields, which is any of the remaining ones
LeaveOutcomes(room, playerID) ==
    LET rest == Drop(room.Players, playerID)
        left == [room EXCEPT !.Players = rest, !.lastActivity = now]
    IN IF HostLeft(room, playerID, rest)
       THEN { [left EXCEPT !.Players[id].IsHost = TRUE, !.HostID = id]
                : id \in DOMAIN rest }
       ELSE { left }

\* Room.Leave on the room Registry.Get(roomID) returned
Leave(roomID, playerID) ==
    /\ roomID \in DOMAIN rooms
    /\ \E room \in LeaveOutcomes(rooms[roomID], playerID) :
           rooms' = [rooms EXCEPT ![roomID] = room]
    /\ ret' = [op |-> "Leave", room |-> roomID, id |-> playerID,
               member |-> (playerID \in DOMAIN rooms[roomID].Players)]
    /\ UNCHANGED <<now, regConfig, expiredCalls>>
    /\ RoomFrame

\* Registry.Delete
Delete(roomID) ==
    /\ rooms' = Drop(rooms, roomID)
    /\ joining' = Detach(joining, orphans, {roomID} \cap DOMAIN rooms).joining
    /\ orphans' = Detach(joining, orphans, {roomID} \cap DOMAIN rooms).orphans
    /\ ret' = [op |-> "Delete", room |-> roomID,
               known |-> (roomID \in DOMAIN rooms)]
    /\ UNCHANGED <<now, regConfig, expiredCalls>>
    /\ RegistryFrame

\* an IsExpired that evicts a room idle for exactly the TTL
IsExpiredAtTTL(room) ==
    IF DOMAIN room.Players # {} THEN FALSE
    ELSE now - room.lastActivity >= regConfig.RoomTTL

\* Room.IsExpired
IsExpired(room) ==
    IF DOMAIN room.Players # {} THEN FALSE
    ELSE now - room.lastActivity > regConfig.RoomTTL

Expired == { id \in DOMAIN rooms : IsExpired(rooms[id]) }

\* one round of cleanupLoop; callback tells whether onRoomExpired is set
Sweep(callback) ==
    /\ rooms' = [id \in DOMAIN rooms \ Expired |-> rooms[id]]
    /\ joining' = Detach(joining, orphans, Expired).joining
    /\ orphans' = Detach(joining, orphans, Expired).orphans
    /\ expiredCalls' = IF callback THEN expiredCalls \cup Expired
                       ELSE expiredCalls
    /\ ret' = [op |-> "Sweep", expired |-> Expired]
    /\ UNCHANGED <<now, regConfig>>
    /\ RegistryFrame

\* the wall clock advances
AdvanceClock ==
    /\ now < MaxClock
    /\ now' = now + 1
    /\ UNCHANGED <<ret, regConfig, rooms, expiredCalls>>
    /\ RoomFrame

\* the game state of a specification that runs none
NoGame ==
    /\ config = [TickRate |-> 1, MaxPlayers |-> 0, PlayerSpeed |-> 0,
                 WorldWidth |-> 0, WorldHeight |-> 0]
    /\ players = <<>>
    /\ applied = [id \in PlayerIDs |-> {}]

\* NewRegistry(config)
InitRoom ==
    /\ now = 0
    /\ ret = NoRet
    /\ regConfig \in RoomConfigs
    /\ rooms = <<>>
    /\ expiredCalls = {}
    /\ NoGame
    /\ NoBridge
    /\ NewManager
    /\ NewEngine
    /\ NoInputs
    /\ NoLocks
    /\ NoJoins

NextRoom ==
    \/ \E id \in RoomIDs : Create(id)
    \/ \E roomID \in RoomIDs, playerID \in MemberIDs, playerName \in Names :
           Join(roomID, playerID, playerName)
    \/ \E roomID \in RoomIDs, playerID \in MemberIDs : Leave(roomID, playerID)
    \/ \E roomID \in RoomIDs : Delete(roomID)
    \/ Sweep(FALSE)
    \/ AdvanceClock

SpecRoom == InitRoom /\ [][NextRoom]_vars

\* the registry with Registry.Join in its two steps, between which r.mu is
\* free for Delete, Create and cleanupLoop; generateID() draws ids that
\* are not in use
JoinConfigs == { [MaxPlayers |-> 2, RoomTTL |-> 0] }

\* the room id the callers of SpecJoin pass
JoinRooms == {"r1"}

InitJoin ==
    /\ now = 0
    /\ ret = NoRet
    /\ regConfig \in JoinConfigs
    /\ rooms = <<>>
    /\ expiredCalls = {}
    /\ NoGame
    /\ NoBridge
    /\ NewManager
    /\ NewEngine
    /\ NoInputs
    /\ NoLocks
    /\ NoJoins

NextJoin ==
    \/ \E id \in JoinRooms \ DOMAIN rooms : Create(id)
    \/ \E roomID \in JoinRooms, playerID \in MemberIDs :
           RegistryJoin(roomID, playerID, "ann")
    \/ \E playerID \in MemberIDs : RoomJoin(playerID)
    \/ \E roomID \in JoinRooms : Delete(roomID)
    \/ Sweep(TRUE)
    \/ AdvanceClock

SpecJoin == InitJoin /\ [][NextJoin]_vars

(***************************************************************************)
(* Claims about the registry                                               *)
(***************************************************************************)
Hosts(room) == { id \in DOMAIN room.Players : room.Players[id].IsHost }

\* C6: in every room of the registry, if the membership is non-empty then
\* exactly one member has IsHost set and HostID is that member's id, and if
\* the membership is empty then HostID is the empty string.
C6_HostInvariant ==
    \A roomID \in DOMAIN rooms :
        IF DOMAIN rooms[roomID].Players # {}
        THEN Hosts(rooms[roomID]) = {rooms[roomID].HostID}
        ELSE rooms[roomID].HostID = ""

\* C7: a Join of a player that is already a member of the room succeeds,
\* returns the member's existing entry and leaves the room (membership,
\* host, member count) unchanged, whatever the room's occupancy.
C7_RejoinIdempotent ==
    [][(/\ CallStep({"Join"})
        /\ ret'.room \in DOMAIN rooms
        /\ ret'.id \in DOMAIN rooms[ret'.room].Players)
       => (/\ ret'.err = ""
           /\ ret'.player = rooms[ret'.room].Players[ret'.id]
           /\ rooms' = rooms)]_vars

\* C8: a Join fails only with room-not-found, when the id is not in the
\* registry, or with room-full, when the room holds MaxPlayer members and
\* the player is not one of them; a failed Join leaves the registry and
\* every room unchanged.
C8_JoinFailures ==
    [][(CallStep({"Join"}) /\ ret'.err # "")
       => (/\ rooms' = rooms
           /\ \/ /\ ret'.err = ErrRoomNotFound
                 /\ ret'.room \notin DOMAIN rooms
              \/ /\ ret'.err = ErrRoomFull
                 /\ ret'.room \in DOMAIN rooms
                 /\ Cardinality(DOMAIN rooms[ret'.room].Players)
                        >= rooms[ret'.room].MaxPlayer
                 /\ ret'.id \notin DOMAIN rooms[ret'.room].Players)]_vars

\* C9: a Leave of a player that is not a member of the room changes nothing
\* of the room (membership, HostID, IsHost flags, lastActivity), and a
\* Delete of an id that is not in the registry changes nothing.
C9_LeaveDeleteNoop ==
    [][/\ (CallStep({"Leave"}) /\ ~ret'.member) => rooms' = rooms
       /\ (CallStep({"Delete"}) /\ ~ret'.known) => rooms' = rooms]_vars

(***************************************************************************)
(* The gateway (Bridge) and the workers                                    *)
(***************************************************************************)
\* the websocket connections, and the playerID handleWS mints for each
Conns == {"c1", "c2"}

PlayerOf == [c1 |-> "p1", c2 |-> "p2"]

\* the room ids generateID() returns to the gateway, with their first byte
BridgeRoomIDs == {"a1", "b1"}

FirstByte == [a1 |-> 97, a2 |-> 97, b1 |-> 98]

\* the host a POST /rooms names: a fresh uuid, or the ?host= parameter
HostParams == {"h1"}

\* the registry configuration of NewBridge, with a small cap
BridgeConfigs == { [MaxPlayers |-> 3, RoomTTL |-> 0] }

basePort == 9100

\* game.DefaultConfig().MaxPlayers, the cap of a worker
WorkerMaxPlayers == 100

\* port := b.basePort + (int(roomID[0]) % 1000)
Port(roomID) == basePort + (FirstByte[roomID] % 1000)

\* the messages one step writes, per connection, in the order written
NoOut == [c \in Conns |-> <<>>]

\* conn.WriteJSON(msg)
WriteJSON(out, c, msg) == [out EXCEPT ![c] = Append(@, msg)]

\* broadcastToRoom(roomID, msg) over the clients map cl
broadcastToRoom(out, cl, roomID, msg) ==
    [c \in Conns |->
        IF c \in DOMAIN cl /\ cl[c].roomID = roomID
        THEN Append(out[c], msg) ELSE out[c]]

\* handleWS up to its read loop: the client is registered and welcomed
Connect(c) ==
    /\ c \notin DOMAIN clients
    /\ c \notin closed
    /\ clients' = Put(clients, c,
                      [playerID |-> PlayerOf[c], name |-> "Player",
                       roomID |-> ""])
    /\ ret' = [op |-> "connect",
               sent |-> WriteJSON(NoOut, c,
                            [type |-> "welcome", id |-> PlayerOf[c]])]
    /\ msgs' = Put(msgs, c, 0)
    /\ UNCHANGED <<now, gameVars, engineVars, inputVars, lockVars, joinVars,
                   sfuVars, roomVars, closed, gameRooms, workers>>

\* handleCreateRoom: Registry.Create, then rm.Join(host, "Host") whose
\* error is dropped.  generateID() returns an id that is not in use here;
\* an id in use is explored by Create in SpecRoom.
handleCreateRoom(id, host) ==
    /\ id \notin DOMAIN rooms
    /\ rooms' = Put(rooms, id,
                    IF JoinErr(NewRoom(id), host) # "" THEN NewRoom(id)
                    ELSE JoinedRoom(NewRoom(id), host, "Host"))
    /\ ret' = [op |-> "create_room", sent |-> NoOut]
    /\ UNCHANGED <<now, gameVars, engineVars, inputVars, lockVars, joinVars,
                   sfuVars, regConfig, expiredCalls, bridgeVars>>

\* the server process a successful spawn starts
NewWorker == [players |-> <<>>, playerMap |-> <<>>, lastStates |-> {},
              inbox |-> {}]

\* the GameRoom spawnGameServer builds; the child owns the port only if no
\* other process is bound to it
NewGameRoom(roomID) ==
    [ID |-> roomID, Port |-> Port(roomID), Inbox |-> <<>>, State |-> {},
     Bound |-> (Port(roomID) \notin DOMAIN workers)]

\* a spawnGameServer without the `already exists` test
SpawnedAgain(roomID) == Put(gameRooms, roomID, NewGameRoom(roomID))

\* b.gameRooms after spawnGameServer(roomID) returned without error
Spawned(roomID) ==
    IF roomID \in DOMAIN gameRooms THEN gameRooms
    ELSE Put(gameRooms, roomID, NewGameRoom(roomID))

\* the processes after spawnGameServer(roomID) returned without error: a
\* child that finds the port taken exits
SpawnedWorkers(roomID) ==
    IF roomID \in DOMAIN gameRooms \/ Port(roomID) \in DOMAIN workers
    THEN workers
    ELSE Put(workers, Port(roomID), NewWorker)

\* gr.UDPConn.Write(hello): the datagram reaches whatever listens on the port
WriteHello(ws, port, playerID, addr) ==
    IF port \notin DOMAIN ws THEN ws
    ELSE [ws EXCEPT ![port].inbox =
              @ \cup {[PlayerId |-> playerID, addr |-> addr]}]

\* handleWS, case "join_room"; started tells whether cmd.Start() succeeds
\* when a server has to be spawned.  ret.spawn tells what spawnGameServer
\* did: it was not called, failed, returned the existing GameRoom or a new one
join_room(c, roomID, playerName, started) ==
    /\ c \in DOMAIN clients
    /\ msgs[c] < MaxMsgs
    /\ msgs' = [msgs EXCEPT ![c] = @ + 1]
    /\ started \/ roomID \notin DOMAIN gameRooms
    /\ LET playerID == clients[c].playerID
           err == IF roomID \notin DOMAIN rooms THEN ErrRoomNotFound
                  ELSE JoinErr(rooms[roomID], playerID)
       IN IF err # ""
          THEN /\ ret' = [op |-> "join_room", room |-> roomID,
                          spawn |-> "none",
                          sent |-> WriteJSON(NoOut, c,
                                     [type |-> "error", error |-> err])]
               /\ UNCHANGED <<rooms, clients, closed, gameRooms, workers>>
          ELSE LET rm == JoinedRoom(rooms[roomID], playerID, playerName)
                   player == JoinedPlayer(rooms[roomID], playerID,
                                          playerName)
                   cl == [clients EXCEPT ![c].roomID = roomID,
                                         ![c].name = playerName]
               IN /\ rooms' = [rooms EXCEPT ![roomID] = rm]
                  /\ clients' = cl
                  /\ UNCHANGED closed
                  /\ IF ~started
                     THEN /\ ret' = [op |-> "join_room", room |-> roomID,
                                     spawn |-> "failed",
                                     sent |-> WriteJSON(NoOut, c,
                                       [type |-> "error",
                                        error |->
                                          "failed to start game server"])]
                          /\ UNCHANGED <<gameRooms, workers>>
                     ELSE /\ gameRooms' = Spawned(roomID)
                          /\ workers' =
                               WriteHello(SpawnedWorkers(roomID),
                                          Port(roomID), playerID, roomID)
                          /\ ret' =
                               [op |-> "join_room", room |-> roomID,
                                spawn |-> IF roomID \in DOMAIN gameRooms
                                          THEN "existing" ELSE "new",
                                sent |->
                                  broadcastToRoom(
                                    WriteJSON(NoOut, c,
                                      [type |-> "room_joined",
                                       roomId |-> roomID,
                                       playerId |-> playerID,
                                       isHost |-> player.IsHost,
                                       playerCount |->
                                         Cardinality(DOMAIN rm.Players)]),
                                    cl, roomID,
                                    [type |-> "player_joined",
                                     playerId |-> playerID,
                                     playerCount |->
                                       Cardinality(DOMAIN rm.Players)])]
    /\ UNCHANGED <<now, gameVars, engineVars, inputVars, lockVars, joinVars,
                   sfuVars, regConfig, expiredCalls>>

\* a leave that keeps the member in the registry
LeftRoomsKept(roomID, playerID) == { rooms }

\* rm.Leave(playerID) on b.rooms.Get(roomID), then the player_left
\* broadcast; nothing happens when the registry has no such room
LeftRooms(roomID, playerID) ==
    IF roomID \notin DOMAIN rooms THEN { rooms }
    ELSE { [rooms EXCEPT ![roomID] = room] :
             room \in LeaveOutcomes(rooms[roomID], playerID) }

LeftOut(cl, roomID, playerID, name) ==
    IF roomID \notin DOMAIN rooms THEN NoOut
    ELSE broadcastToRoom(NoOut, cl, roomID,
             [type |-> "player_left", playerId |-> playerID,
              playerName |-> name])

\* stopGameRoom(roomID): b.gameRooms afterwards
StoppedRooms(roomID) == Drop(gameRooms, roomID)

\* stopGameRoom(roomID): the processes afterwards.  Kill() ends the child
\* of the room; a child that had found its port taken has exited already.
StoppedWorkers(roomID) ==
    IF roomID \in DOMAIN gameRooms /\ gameRooms[roomID].Bound
    THEN Drop(workers, gameRooms[roomID].Port)
    ELSE workers

\* a leave_room that stops the worker of the room it leaves
leave_roomStopping(c) ==
    /\ c \in DOMAIN clients
    /\ msgs[c] < MaxMsgs
    /\ msgs' = [msgs EXCEPT ![c] = @ + 1]
    /\ IF clients[c].roomID = ""
       THEN /\ ret' = [op |-> "leave_room", sent |-> NoOut]
            /\ UNCHANGED <<rooms, clients, gameRooms, workers>>
       ELSE /\ rooms' \in LeftRooms(clients[c].roomID, clients[c].playerID)
            /\ ret' = [op |-> "leave_room",
                       sent |-> LeftOut(clients, clients[c].roomID,
                                        clients[c].playerID,
                                        clients[c].name)]
            /\ clients' = [clients EXCEPT ![c].roomID = ""]
            /\ gameRooms' = StoppedRooms(clients[c].roomID)
            /\ workers' = StoppedWorkers(clients[c].roomID)
    /\ UNCHANGED <<now, gameVars, engineVars, inputVars, lockVars, joinVars,
                   sfuVars, regConfig, expiredCalls, closed>>

\* handleWS, case "leave_room"
leave_room(c) ==
    /\ c \in DOMAIN clients
    /\ msgs[c] < MaxMsgs
    /\ msgs' = [msgs EXCEPT ![c] = @ + 1]
    /\ IF clients[c].roomID = ""
       THEN /\ ret' = [op |-> "leave_room", sent |-> NoOut]
            /\ UNCHANGED <<rooms, clients>>
       ELSE /\ rooms' \in LeftRooms(clients[c].roomID, clients[c].playerID)
            /\ ret' = [op |-> "leave_room",
                       sent |-> LeftOut(clients, clients[c].roomID,
                                        clients[c].playerID,
                                        clients[c].name)]
            /\ clients' = [clients EXCEPT ![c].roomID = ""]
    /\ UNCHANGED <<now, gameVars, engineVars, inputVars, lockVars, joinVars,
                   sfuVars, regConfig, expiredCalls, closed,
                   gameRooms, workers>>

\* handleWS after its read loop: the connection is closed and cleaned up
disconnect(c) ==
    /\ c \in DOMAIN clients
    /\ clients' = Drop(clients, c)
    /\ closed' = closed \cup {c}
    /\ IF clients[c].roomID = ""
       THEN /\ ret' = [op |-> "disconnect", sent |-> NoOut]
            /\ UNCHANGED rooms
       ELSE /\ rooms' \in LeftRooms(clients[c].roomID, clients[c].playerID)
            /\ ret' = [op |-> "disconnect",
                       sent |-> LeftOut(Drop(clients, c),
                                        clients[c].roomID,
                                        clients[c].playerID,
                                        clients[c].name)]
    /\ UNCHANGED <<now, gameVars, engineVars, inputVars, lockVars, joinVars,
                   sfuVars, regConfig, expiredCalls, msgs, gameRooms,
                   workers>>

\* the worker's handleClientHello for one datagram of its socket
handleClientHello(port, hello) ==
    /\ port \in DOMAIN workers
    /\ hello \in workers[port].inbox
    /\ LET w == [workers[port] EXCEPT !.inbox = @ \ {hello}]
           id == hello.PlayerId
       IN workers' = [workers EXCEPT ![port] =
            IF id \in DOMAIN w.playerMap
            THEN [w EXCEPT !.playerMap[id] = hello.addr]
            ELSE IF \/ id \in DOMAIN w.players
                    \/ Cardinality(DOMAIN w.players) >= WorkerMaxPlayers
            THEN w
            ELSE [w EXCEPT !.players = Put(@, id, hello.addr),
                           !.playerMap = Put(@, id, hello.addr)]]
    /\ ret' = [op |-> "ClientHello", sent |-> NoOut]
    /\ UNCHANGED <<now, gameVars, engineVars, inputVars, lockVars, joinVars,
                   sfuVars, roomVars, clients, closed, msgs,
                   gameRooms>>

\* DeltaTracker.ComputeDelta over the ids; moved are the players whose
\* position or velocity differs from the snapshot kept for them
Changed(w, moved) ==
    { id \in DOMAIN w.players : id \notin w.lastStates \/ id \in moved }

Removed(w) == w.lastStates \ DOMAIN w.players

\* the datagrams Broadcast writes to one address: one per player stored
\* with that address
Copies(w, addr, delta) ==
    [i \in 1..Cardinality({ id \in DOMAIN w.players : w.players[id] = addr })
        |-> delta]

\* a socket's receive buffer after datagrams arrived: those that find the
\* buffer full are dropped
Receive(inbox, datagrams) ==
    SubSeq(inbox \o datagrams, 1,
           IF Len(inbox \o datagrams) < MaxInFlight
           THEN Len(inbox \o datagrams) ELSE MaxInFlight)

\* one round of the worker's tick loop: tick, then broadcastState
tick(port, moved) ==
    /\ port \in DOMAIN workers
    /\ moved \subseteq DOMAIN workers[port].players
    /\ LET w == workers[port]
           delta == [changed |-> Changed(w, moved), removed |-> Removed(w)]
       IN IF \/ DOMAIN w.players = {}
             \/ (delta.changed = {} /\ delta.removed = {})
          THEN UNCHANGED <<workers, gameRooms>>
          ELSE /\ workers' = [workers EXCEPT ![port].lastStates =
                                 (@ \ delta.removed) \cup delta.changed]
               /\ gameRooms' = [addr \in DOMAIN gameRooms |->
                                 [gameRooms[addr] EXCEPT !.Inbox =
                                     Receive(@, Copies(w, addr, delta))]]
    /\ ret' = [op |-> "tick", sent |-> NoOut]
    /\ UNCHANGED <<now, gameVars, engineVars, inputVars, lockVars, joinVars,
                   sfuVars, roomVars, clients, closed, msgs>>

\* broadcastRoomState(gr) with gr.State = state
broadcastRoomState(roomID, state) ==
    [c \in Conns |->
        IF c \in DOMAIN clients /\ clients[c].roomID = roomID
        THEN << [type |-> "state", yourId |-> clients[c].playerID,
                 roomId |-> roomID, players |-> state] >>
        ELSE <<>>]

\* receiveUDP(gr) for one StateDelta datagram
receiveUDP(roomID) ==
    /\ roomID \in DOMAIN gameRooms
    /\ gameRooms[roomID].Inbox # <<>>
    /\ LET delta == Head(gameRooms[roomID].Inbox)
           state == (gameRooms[roomID].State \cup delta.changed)
                        \ delta.removed
       IN /\ gameRooms' = [gameRooms EXCEPT ![roomID].Inbox = Tail(@),
                                            ![roomID].State = state]
          /\ ret' = [op |-> "receiveUDP",
                     sent |-> broadcastRoomState(roomID, state)]
    /\ UNCHANGED <<now, gameVars, engineVars, inputVars, lockVars, joinVars,
                   sfuVars, roomVars, clients, closed, msgs,
                   workers>>

\* NewBridge()
InitBridge ==
    /\ now = 0
    /\ ret = NoRet
    /\ regConfig \in BridgeConfigs
    /\ rooms = <<>>
    /\ expiredCalls = {}
    /\ NoGame
    /\ NoBridge
    /\ NewManager
    /\ NewEngine
    /\ NoInputs
    /\ NoLocks
    /\ NoJoins

NextBridge ==
    \/ \E c \in Conns : Connect(c)
    \/ \E id \in BridgeRoomIDs, host \in HostParams : handleCreateRoom(id, host)
    \/ \E c \in Conns, roomID \in BridgeRoomIDs, started \in BOOLEAN :
           join_room(c, roomID, "Player", started)
    \/ \E c \in Conns : leave_room(c)
    \/ \E c \in Conns : disconnect(c)
    \/ \E port \in DOMAIN workers :
           \E hello \in workers[port].inbox : handleClientHello(port, hello)
    \/ \E port \in DOMAIN workers :
           \E moved \in SUBSET DOMAIN workers[port].players :
               tick(port, moved)
    \/ \E roomID \in BridgeRoomIDs : receiveUDP(roomID)

SpecBridge == InitBridge /\ [][NextBridge]_vars

(***************************************************************************)
(* Claims about the gateway                                                *)
(***************************************************************************)
\* the registry members of the room a connection is in
RoomMembers(c) ==
    IF c \in DOMAIN clients /\ clients[c].roomID \in DOMAIN rooms
    THEN DOMAIN rooms[clients[c].roomID].Players
    ELSE {}

\* C10: every state message delivered to a session lists only players that
\* are members of the room the session is in at that moment.
C10_StateRoomScoped ==
    ret.op = "receiveUDP" =>
        \A c \in Conns :
            \A i \in 1..Len(ret.sent[c]) :
                ret.sent[c][i].players \subseteq RoomMembers(c)

(***************************************************************************)
(* The life of rooms and workers in the gateway: creation, spawn, expiry   *)
(* and deletion, for one connection and two room ids whose first bytes     *)
(* agree.                                                                  *)
(***************************************************************************)
LifeConns == {"c1"}

LifeRoomIDs == {"a1", "a2"}

\* the host a POST /rooms names: a fresh uuid, or the id the connection was
\* welcomed with
LifeHostParams == {"h1", "p1"}

\* handleDeleteRoom: 404 for an unknown room, else stopGameRoom and Delete
handleDeleteRoom(roomID) ==
    /\ IF roomID \notin DOMAIN rooms
       THEN /\ ret' = [op |-> "delete_room", sent |-> NoOut,
                       room |-> roomID, status |-> "not found"]
            /\ UNCHANGED <<rooms, gameRooms, workers>>
       ELSE /\ gameRooms' = StoppedRooms(roomID)
            /\ workers' = StoppedWorkers(roomID)
            /\ rooms' = Drop(rooms, roomID)
            /\ ret' = [op |-> "delete_room", sent |-> NoOut,
                       room |-> roomID, status |-> "deleted"]
    /\ UNCHANGED <<now, gameVars, engineVars, inputVars, lockVars, joinVars,
                   sfuVars, regConfig, expiredCalls, clients, closed,
                   msgs>>

\* the goroutine cleanupLoop started for an expired room: the callback
\* NewBridge registered, bridge.stopGameRoom(r.ID)
onRoomExpired(roomID) ==
    /\ roomID \in expiredCalls
    /\ expiredCalls' = expiredCalls \ {roomID}
    /\ gameRooms' = StoppedRooms(roomID)
    /\ workers' = StoppedWorkers(roomID)
    /\ ret' = [op |-> "onRoomExpired", sent |-> NoOut, room |-> roomID]
    /\ UNCHANGED <<now, gameVars, engineVars, inputVars, lockVars, joinVars,
                   sfuVars, regConfig, rooms, clients, closed, msgs>>

NextLife ==
    \/ \E c \in LifeConns : Connect(c)
    \/ \E id \in LifeRoomIDs, host \in LifeHostParams :
           handleCreateRoom(id, host)
    \/ \E c \in LifeConns, roomID \in LifeRoomIDs, started \in BOOLEAN :
           join_room(c, roomID, "Player", started)
    \/ \E c \in LifeConns : leave_room(c)
    \/ \E c \in LifeConns : disconnect(c)
    \/ \E roomID \in LifeRoomIDs : handleDeleteRoom(roomID)
    \/ Sweep(TRUE)
    \/ \E roomID \in LifeRoomIDs : onRoomExpired(roomID)
    \/ AdvanceClock

SpecLife == InitBridge /\ [][NextLife]_vars

\* cleanupLoop's ticker keeps firing, the goroutines it starts get to run
\* and time passes
SpecLifeFair ==
    /\ SpecLife
    /\ WF_vars(Sweep(TRUE))
    /\ WF_vars(AdvanceClock)
    /\ \A roomID \in LifeRoomIDs : WF_vars(onRoomExpired(roomID))

(***************************************************************************)
(* Claims about rooms and workers in the gateway                           *)
(***************************************************************************)
\* C11: two distinct rooms that have a GameRoom at the same time have
\* distinct worker endpoints (UDP ports), so that what is written for one
\* room is not received by the worker of the other.
C11_DistinctPorts ==
    \A r1 \in DOMAIN gameRooms, r2 \in DOMAIN gameRooms :
        r1 # r2 => gameRooms[r1].Port # gameRooms[r2].Port

\* C12: spawnGameServer is idempotent: a call for a room that has a
\* GameRoom returns that GameRoom and starts no process, and no call
\* replaces or removes the GameRoom of any room.
C12_SpawnIdempotent ==
    [][CallStep({"join_room"})
       => (/\ \A r \in DOMAIN gameRooms :
                 r \in DOMAIN gameRooms' /\ gameRooms'[r] = gameRooms[r]
           /\ ret'.spawn = "existing"
                 => (/\ ret'.room \in DOMAIN gameRooms
                     /\ gameRooms' = gameRooms
                     /\ DOMAIN workers' = DOMAIN workers)
           /\ ret'.spawn = "new"
                 => (/\ ret'.room \notin DOMAIN gameRooms
                     /\ DOMAIN gameRooms'
                            = DOMAIN gameRooms \cup {ret'.room}))]_vars

\* C12 witness: a join_room called spawnGameServer for a room whose
\* GameRoom an earlier join_room had spawned, and got that GameRoom.
C12_Witness ==
    /\ ret.op = "join_room"
    /\ ret.spawn = "existing"
    /\ ret.room \in DOMAIN gameRooms
    /\ gameRooms[ret.room].Bound

\* the members of a room in a registry map; none if the map has no such room
MembersIn(rs, roomID) ==
    IF roomID \in DOMAIN rs THEN DOMAIN rs[roomID].Players ELSE {}

\* C13: when spawning the worker fails during join_room, the session gets
\* the error "failed to start game server", a session that was in no room
\* still is in none, and a player that was not a member of the room is not
\* a member afterwards.
C13_SpawnFailureRolledBack ==
    [][(CallStep({"join_room"}) /\ ret'.spawn = "failed")
       => \A c \in DOMAIN clients :
             ret'.sent[c] # <<>>
                => (/\ ret'.sent[c]
                         = << [type |-> "error",
                               error |-> "failed to start game server"] >>
                    /\ clients[c].roomID = "" => clients'[c].roomID = ""
                    /\ clients[c].playerID \notin MembersIn(rooms, ret'.room)
                         => clients[c].playerID
                                \notin MembersIn(rooms', ret'.room))]_vars

\* C14: a leave_room message or a socket close leaves every GameRoom and
\* every worker process in place, and a step that removes the GameRoom of
\* a room is the expiry callback for that room or the DELETE of that room.
C14_StoppedOnlyByExpiryOrDelete ==
    [][/\ CallStep({"leave_room", "disconnect"})
            => (gameRooms' = gameRooms /\ workers' = workers)
       /\ \A r \in DOMAIN gameRooms :
            r \notin DOMAIN gameRooms'
                => (/\ ret'.op \in {"onRoomExpired", "delete_room"}
                    /\ ret'.room = r)
       /\ DOMAIN workers \subseteq DOMAIN workers'
            \/ ret'.op \in {"onRoomExpired", "delete_room"}]_vars

\* C14 witness: the last member of a room has left it with leave_room or
\* by closing its socket, and the room still has its GameRoom and worker.
C14_Witness ==
    /\ ret.op \in {"leave_room", "disconnect"}
    /\ \E r \in DOMAIN gameRooms :
          /\ r \in DOMAIN rooms
          /\ DOMAIN rooms[r].Players = {}
          /\ rooms[r].lastActivity = now
          /\ gameRooms[r].Port \in DOMAIN workers

\* C15: the expiry callback runs before the deletion: there is no state
\* in which a sweep has removed a room from the registry, the callback for
\* it has not run yet and the gateway still holds a GameRoom for it.
C15_CallbackBeforeDeletion ==
    \A r \in expiredCalls :
        r \notin DOMAIN rooms => r \notin DOMAIN gameRooms

\* C16: a sweep evicts exactly the rooms that have no member and have been
\* idle (now - lastActivity) for more than RoomTTL; every other room stays
\* in the registry as it was.
C16_SweepEvictsExactlyExpired ==
    [][CallStep({"Sweep"})
       => \A r \in DOMAIN rooms :
             IF /\ Cardinality(DOMAIN rooms[r].Players) = 0
                /\ now - rooms[r].lastActivity > regConfig.RoomTTL
             THEN r \notin DOMAIN rooms'
             ELSE r \in DOMAIN rooms' /\ rooms'[r] = rooms[r]]_vars

\* C16 witness: a sweep evicted a room and kept an empty room that had been
\* idle for exactly RoomTTL.
C16_Witness ==
    /\ ret.op = "Sweep"
    /\ ret.expired # {}
    /\ \E r \in DOMAIN rooms :
          /\ DOMAIN rooms[r].Players = {}
          /\ now - rooms[r].lastActivity = regConfig.RoomTTL

\* no connection is in the room
NoSession(r) == \A c \in DOMAIN clients : clients[c].roomID # r

\* a room that got a worker, that every session has left and whose TTL can
\* still run out on the model's clock
Abandoned(r) ==
    /\ r \in DOMAIN gameRooms
    /\ NoSession(r)
    /\ r \in DOMAIN rooms
          => rooms[r].lastActivity + regConfig.RoomTTL < MaxClock

\* C17: a room whose sessions have all left or disconnected and that nobody
\* joins again is eventually evicted by the sweep and its worker eventually
\* stopped: no room stays abandoned for ever.
C17_AbandonedRoomEvicted ==
    \A r \in LifeRoomIDs : []<>(~Abandoned(r))

\* a room as POST /rooms left it: nobody but the host of the request in it
Fresh(room) ==
    /\ room.lastActivity = room.CreatedAt
    /\ \E host \in LifeHostParams :
          /\ room.HostID = host
          /\ room.Players
               = [h \in {host} |->
                    [ID |-> host, Name |-> "Host",
                     JoinedAt |-> room.CreatedAt, IsHost |-> TRUE]]

\* C18: the session that joins a room freshly created with POST /rooms gets
\* room_joined with isHost = true and playerCount = 1.
C18_FirstJoinerIsHost ==
    [][(/\ CallStep({"join_room"})
        /\ ret'.spawn \in {"new", "existing"}
        /\ ret'.room \in DOMAIN rooms
        /\ Fresh(rooms[ret'.room]))
       => \A c \in Conns :
             \A i \in 1..Len(ret'.sent[c]) :
                ret'.sent[c][i].type = "room_joined"
                   => (/\ ret'.sent[c][i].isHost
                       /\ ret'.sent[c][i].playerCount = 1)]_vars

\* C19: once the cleanup of a closed session has run, the session is not in
\* the client map and its playerID is a member of no room of the registry.
C19_ClosedSessionCleanedUp ==
    \A c \in closed :
       /\ c \notin DOMAIN clients
       /\ \A r \in DOMAIN rooms : PlayerOf[c] \notin DOMAIN rooms[r].Players

\* the room a session is in when it sends leave_room or is closed
RoomOfPlayer(playerID) ==
    { clients[c].roomID : c \in { d \in DOMAIN clients :
                                    clients[d].playerID = playerID } }

\* C20: a player_joined for p is written when the registry has p as a member
\* of the room joined, and a player_left for p is written when the registry
\* no longer has p as a member of the room left.
C20_NotifiedAfterRegistry ==
    []["sent" \in DOMAIN ret' =>
       \A c \in Conns :
          \A i \in 1..Len(ret'.sent[c]) :
             /\ ret'.sent[c][i].type = "player_joined"
                   => /\ ret'.op = "join_room"
                      /\ ret'.sent[c][i].playerId
                            \in MembersIn(rooms', ret'.room)
             /\ ret'.sent[c][i].type = "player_left"
                   => /\ ret'.op \in {"leave_room", "disconnect"}
                      /\ \A r \in RoomOfPlayer(ret'.sent[c][i].playerId) :
                            ret'.sent[c][i].playerId
                               \notin MembersIn(rooms', r)]_vars

C20_Witness ==
    /\ ret.op \in {"leave_room", "disconnect"}
    /\ \E c \in DOMAIN clients :
          /\ ret.sent[c] # <<>>
          /\ ret.sent[c][1].type = "player_left"
          /\ ret.sent[c][1].playerId # PlayerOf[c]
          /\ clients[c].roomID \in DOMAIN rooms
          /\ PlayerOf[c] \in DOMAIN rooms[clients[c].roomID].Players
          /\ ret.sent[c][1].playerId
                \notin DOMAIN rooms[clients[c].roomID].Players

(***************************************************************************)
(* Claims about the gateway and the players of its workers                 *)
(***************************************************************************)
\* the worker of the room has the player in its collection
Admitted(ws, roomID, playerID) ==
    /\ Port(roomID) \in DOMAIN ws
    /\ playerID \in DOMAIN ws[Port(roomID)].players

\* C21: whenever the gateway writes player_joined for p to a room, the
\* worker of the room has p in its player collection.
C21_JoinedAfterAdmission ==
    [][CallStep({"join_room"}) =>
       \A c \in Conns :
          \A i \in 1..Len(ret'.sent[c]) :
             ret'.sent[c][i].type = "player_joined"
                => Admitted(workers', ret'.room,
                            ret'.sent[c][i].playerId)]_vars

\* Engine.RemovePlayer(id) on a worker: the player leaves the state and the
\* delta tracker forgets it
EngineRemovePlayer(w, id) ==
    IF id \notin DOMAIN w.players THEN w
    ELSE [w EXCEPT !.players = Drop(@, id), !.lastStates = @ \ {id}]

RECURSIVE RemoveAll(_, _)
RemoveAll(w, ids) ==
    IF ids = {} THEN w
    ELSE LET id == CHOOSE i \in ids : TRUE
         IN RemoveAll(EngineRemovePlayer(w, id), ids \ {id})

\* the worker's handleDisconnect(addr): every player mapped to the address
\* is removed.  It is registered with UDPTransport.OnDisconnect, and
\* receiveLoop and trackClient never call the registered handler, so no
\* step of a running worker is this one.
handleDisconnect(port, addr) ==
    /\ port \in DOMAIN workers
    /\ LET w == workers[port]
           toRemove == { id \in DOMAIN w.playerMap : w.playerMap[id] = addr }
       IN workers' = [workers EXCEPT ![port] =
            RemoveAll([w EXCEPT !.playerMap =
                          [id \in DOMAIN w.playerMap \ toRemove |->
                              w.playerMap[id]]],
                      toRemove)]
    /\ ret' = [op |-> "Disconnect", sent |-> NoOut]
    /\ UNCHANGED <<now, gameVars, engineVars, inputVars, lockVars, joinVars,
                   sfuVars, roomVars, clients, closed, msgs,
                   gameRooms>>

\* the gateway with its goroutines and the loops of the workers scheduled
\* fairly: datagrams that arrived are read, tick loops tick, and the
\* receiveUDP goroutine of a room reads what the worker sent
SpecBridgeFair ==
    /\ SpecBridge
    /\ WF_vars(\E port \in DOMAIN workers :
                  \E hello \in workers[port].inbox :
                      handleClientHello(port, hello))
    /\ WF_vars(\E port \in DOMAIN workers :
                  \E moved \in SUBSET DOMAIN workers[port].players :
                      tick(port, moved))
    /\ WF_vars(\E roomID \in BridgeRoomIDs : receiveUDP(roomID))

\* C22: after a session closed its socket, the workers eventually hold no
\* player under its playerID.
C22_LeaverRemovedFromWorker ==
    \A c \in Conns :
       (c \in closed)
          ~> (\A port \in DOMAIN workers :
                 PlayerOf[c] \notin DOMAIN workers[port].players)

(***************************************************************************)
(* webrtc.Manager: the SFU of one room, with the gateway goroutine that     *)
(* drains its renegotiation channel.  A pion call on an open                *)
(* PeerConnection succeeds unless the SDP it is given is invalid; on a      *)
(* closed PeerConnection it returns an error.                               *)
(***************************************************************************)
SFUPlayers == {"p1", "p2"}

SFURoom == "a1"

Kinds == {"audio", "video"}

\* make(chan RenegotiateEvent, 100)
renegotiateCap == 100

\* the TrackLocalStaticRTP forwardTrackToOthers makes for the track of one
\* kind that arrived on one PeerConnection of a player
LocalTrack(from, kind, pc) == [from |-> from, kind |-> kind, pc |-> pc]

\* webrtc.NewPeerConnection(config): no sender; published are the kinds
\* whose OnTrack has fired, answered tells whether an answer has been set
\* as local description, after which media of the browser can arrive
NewPeerConnection(playerID) ==
    [owner |-> playerID, senders |-> <<>>, published |-> {},
     answered |-> FALSE, closed |-> FALSE]

\* pc.AddTrack(track): a closed connection returns an error; an open one
\* gains a sender, also for a track it already sends
AddTrack(pc, track) ==
    IF pc.closed THEN pc
    ELSE [pc EXCEPT !.senders =
            Put(@, track, IF track \in DOMAIN @ THEN @[track] + 1 ELSE 1)]

RECURSIVE AddTracks(_, _)
AddTracks(pc, tracks) ==
    IF tracks = {} THEN pc
    ELSE LET t == CHOOSE x \in tracks : TRUE
         IN AddTracks(AddTrack(pc, t), tracks \ {t})

\* HandleOffer's two loops with their test left out
AllTracks(playerID) ==
    { audioTracks[q] : q \in DOMAIN audioTracks }
        \cup { videoTracks[q] : q \in DOMAIN videoTracks }

\* HandleOffer's two loops without the one over videoTracks
OthersAudio(playerID) ==
    { audioTracks[q] : q \in DOMAIN audioTracks \ {playerID} }

\* HandleOffer's two loops: audioTracks[other] and videoTracks[other] for
\* otherPlayerID != playerID
OthersTracks(playerID) ==
    { audioTracks[q] : q \in DOMAIN audioTracks \ {playerID} }
        \cup { videoTracks[q] : q \in DOMAIN videoTracks \ {playerID} }

Idle(playerID) ==
    IF playerID \in DOMAIN offers THEN offers[playerID].stage = "idle"
    ELSE TRUE

Calls(playerID) ==
    IF playerID \in DOMAIN offers THEN offers[playerID].calls ELSE 0

RECURSIVE OffersSent(_)
OffersSent(ps) ==
    IF ps = {} THEN 0
    ELSE LET q == CHOOSE x \in ps : TRUE
         IN offers[q].calls + OffersSent(ps \ {q})

\* the session of the player is in the room: webrtc_* messages of a session
\* without a room, or for a room without GameRoom, are skipped
InSFURoom(playerID) ==
    /\ SFURoom \in DOMAIN gameRooms
    /\ \E c \in DOMAIN clients :
          clients[c].playerID = playerID /\ clients[c].roomID = SFURoom

\* HandleOffer up to SetRemoteDescription: CreatePeerConnection returns the
\* connection of the player or makes one; an invalid offer ends the call
CreatePeerConnection(playerID, valid) ==
    /\ InSFURoom(playerID)
    /\ Idle(playerID)
    /\ OffersSent(DOMAIN offers) < MaxOffers
    /\ playerID \in DOMAIN peerConns \/ Len(pcs) < MaxPCs
    /\ LET fresh == playerID \notin DOMAIN peerConns
           pc == IF fresh THEN Len(pcs) + 1 ELSE peerConns[playerID]
       IN /\ IF fresh
             THEN /\ pcs' = Append(pcs, NewPeerConnection(playerID))
                  /\ peerConns' = Put(peerConns, playerID, pc)
                  /\ incomingTracks' = Put(incomingTracks, playerID, {})
             ELSE UNCHANGED <<pcs, peerConns, incomingTracks>>
          /\ offers' = Put(offers, playerID,
                           [stage |-> IF valid THEN "created" ELSE "idle",
                            pc |-> pc, fresh |-> fresh,
                            calls |-> Calls(playerID) + 1])
          /\ ret' = IF valid
                    THEN [op |-> "CreatePeerConnection", player |-> playerID]
                    ELSE [op |-> "HandleOffer", player |-> playerID,
                          err |-> "invalid offer", fresh |-> fresh,
                          answer |-> <<>>]
    /\ UNCHANGED <<now, gameVars, engineVars, inputVars, lockVars, joinVars,
                   roomVars, bridgeVars, audioTracks,
                   videoTracks, renegotiateChan, forwards>>

\* HandleOffer under m.mu.RLock(): the tracks of the others are added
HandleOfferAddTracks(playerID) ==
    /\ playerID \in DOMAIN offers
    /\ offers[playerID].stage = "created"
    /\ pcs' = [pcs EXCEPT ![offers[playerID].pc] =
                  AddTracks(@, OthersTracks(playerID))]
    /\ offers' = [offers EXCEPT ![playerID].stage = "added"]
    /\ ret' = [op |-> "AddTracks", player |-> playerID]
    /\ UNCHANGED <<now, gameVars, engineVars, inputVars, lockVars, joinVars,
                   roomVars, bridgeVars, peerConns,
                   incomingTracks, audioTracks, videoTracks,
                   renegotiateChan, forwards>>

\* HandleOffer from pc.CreateAnswer(nil) on: the answer describes the
\* senders the connection has at this moment
HandleOfferAnswer(playerID) ==
    /\ playerID \in DOMAIN offers
    /\ offers[playerID].stage = "added"
    /\ offers' = [offers EXCEPT ![playerID].stage = "idle"]
    /\ LET pc == pcs[offers[playerID].pc]
       IN /\ ret' = [op |-> "HandleOffer", player |-> playerID,
                     err |-> IF pc.closed THEN "connection closed" ELSE "",
                     fresh |-> offers[playerID].fresh,
                     answer |-> IF pc.closed THEN <<>> ELSE pc.senders]
          /\ pcs' = IF pc.closed THEN pcs
                    ELSE [pcs EXCEPT ![offers[playerID].pc].answered = TRUE]
    /\ UNCHANGED <<now, gameVars, engineVars, inputVars, lockVars, joinVars,
                   roomVars, bridgeVars, peerConns,
                   incomingTracks, audioTracks, videoTracks,
                   renegotiateChan, forwards>>

RECURSIVE TracksArrived(_)
TracksArrived(n) ==
    IF n = 0 THEN 0
    ELSE Cardinality(pcs[n].published) + TracksArrived(n - 1)

\* the OnTrack handler CreatePeerConnection registered last, for a track of
\* the kind arriving on the connection of the player
OnTrack(playerID, kind) ==
    /\ playerID \in DOMAIN peerConns
    /\ pcs[peerConns[playerID]].answered
    /\ TracksArrived(Len(pcs)) < MaxTracks
    /\ kind \notin pcs[peerConns[playerID]].published
    /\ pcs' = [pcs EXCEPT ![peerConns[playerID]].published = @ \cup {kind}]
    /\ incomingTracks' =
          Put(incomingTracks, playerID,
              (IF playerID \in DOMAIN incomingTracks
               THEN incomingTracks[playerID] ELSE {}) \cup {kind})
    /\ forwards' = forwards \cup
          { [from |-> playerID, kind |-> kind, pc |-> peerConns[playerID],
             stage |-> "store", to |-> {}] }
    /\ ret' = [op |-> "OnTrack", player |-> playerID]
    /\ UNCHANGED <<now, gameVars, engineVars, inputVars, lockVars, joinVars,
                   roomVars, bridgeVars, peerConns,
                   audioTracks, videoTracks, renegotiateChan, offers>>

\* forwardTrackToOthers under m.mu.Lock(): the local track is stored and
\* added to the connection of every other player
forwardTrackToOthers(f) ==
    /\ f \in forwards
    /\ f.stage = "store"
    /\ LET track == LocalTrack(f.from, f.kind, f.pc)
           toRenegotiate == DOMAIN peerConns \ {f.from}
       IN /\ IF f.kind = "audio"
             THEN /\ audioTracks' = Put(audioTracks, f.from, track)
                  /\ UNCHANGED videoTracks
             ELSE /\ videoTracks' = Put(videoTracks, f.from, track)
                  /\ UNCHANGED audioTracks
          /\ pcs' = [i \in DOMAIN pcs |->
                       IF \E q \in toRenegotiate : peerConns[q] = i
                       THEN AddTrack(pcs[i], track) ELSE pcs[i]]
          /\ forwards' = (forwards \ {f}) \cup
                IF toRenegotiate = {} THEN {}
                ELSE { [f EXCEPT !.stage = "queue", !.to = toRenegotiate] }
          /\ ret' = [op |-> "forwardTrackToOthers", track |-> track,
                     to |-> toRenegotiate]
    /\ UNCHANGED <<now, gameVars, engineVars, inputVars, lockVars, joinVars,
                   roomVars, bridgeVars, peerConns,
                   incomingTracks, renegotiateChan, offers>>

\* forwardTrackToOthers, one round of `for _, playerID := range
\* toRenegotiate`: the event is queued, or dropped when the channel is full
forwardQueue(f, playerID) ==
    /\ f \in forwards
    /\ f.stage = "queue"
    /\ playerID \in f.to
    /\ LET event == [PlayerID |-> playerID,
                     Track |-> LocalTrack(f.from, f.kind, f.pc)]
           full == Len(renegotiateChan) >= renegotiateCap
       IN /\ renegotiateChan' = IF full THEN renegotiateChan
                                ELSE Append(renegotiateChan, event)
          /\ ret' = [op |-> "queue", event |-> event, dropped |-> full]
    /\ forwards' = (forwards \ {f}) \cup
          IF f.to = {playerID} THEN {}
          ELSE { [f EXCEPT !.to = @ \ {playerID}] }
    /\ UNCHANGED <<now, gameVars, engineVars, inputVars, lockVars, joinVars,
                   roomVars, bridgeVars, pcs, peerConns,
                   incomingTracks, audioTracks, videoTracks, offers>>

\* handleWebRTCTracks for one RenegotiateEvent: CreateOffer, then the
\* webrtc_offer to the session of the player in this room
handleWebRTCTracks ==
    /\ renegotiateChan # <<>>
    /\ renegotiateChan' = Tail(renegotiateChan)
    /\ LET playerID == Head(renegotiateChan).PlayerID
           exists == playerID \in DOMAIN peerConns
       IN ret' = [op |-> "renegotiate", player |-> playerID,
                  event |-> Head(renegotiateChan),
                  offer |-> IF exists THEN pcs[peerConns[playerID]].senders
                            ELSE <<>>,
                  sent |-> exists /\ InSFURoom(playerID)]
    /\ UNCHANGED <<now, gameVars, engineVars, inputVars, lockVars, joinVars,
                   roomVars, bridgeVars, pcs, peerConns,
                   incomingTracks, audioTracks, videoTracks, offers,
                   forwards>>

\* RemovePeerConnection(playerID), called by OnConnectionStateChange when the
\* connection is disconnected, failed or closed
RemovePeerConnection(playerID) ==
    /\ IF playerID \in DOMAIN peerConns
       THEN /\ pcs' = [pcs EXCEPT ![peerConns[playerID]].closed = TRUE]
            /\ peerConns' = Drop(peerConns, playerID)
            /\ incomingTracks' = Drop(incomingTracks, playerID)
            /\ audioTracks' = Drop(audioTracks, playerID)
            /\ videoTracks' = Drop(videoTracks, playerID)
       ELSE UNCHANGED <<pcs, peerConns, incomingTracks, audioTracks,
                        videoTracks>>
    /\ ret' = [op |-> "RemovePeerConnection", player |-> playerID,
               existed |-> playerID \in DOMAIN peerConns]
    /\ UNCHANGED <<now, gameVars, engineVars, inputVars, lockVars, joinVars,
                   roomVars, bridgeVars, renegotiateChan,
                   offers, forwards>>

\* HandleAnswer(playerID, sdp) and HandleICECandidate(playerID, candidate):
\* nothing for a player without connection, else what pion returns
HandleAnswer(playerID, valid) ==
    /\ InSFURoom(playerID)
    /\ ret' = [op |-> "HandleAnswer", player |-> playerID,
               err |-> IF playerID \in DOMAIN peerConns /\ ~valid
                       THEN "invalid answer" ELSE ""]
    /\ UNCHANGED <<now, gameVars, engineVars, inputVars, lockVars, joinVars,
                   roomVars, bridgeVars, sfuVars>>

HandleICECandidate(playerID, valid) ==
    /\ InSFURoom(playerID)
    /\ ret' = [op |-> "HandleICECandidate", player |-> playerID,
               err |-> IF playerID \in DOMAIN peerConns /\ ~valid
                       THEN "invalid candidate" ELSE ""]
    /\ UNCHANGED <<now, gameVars, engineVars, inputVars, lockVars, joinVars,
                   roomVars, bridgeVars, sfuVars>>

\* the gateway after POST /rooms made the room and both sessions joined it:
\* spawnGameServer has made the GameRoom with its Manager
InitSFU ==
    /\ now = 0
    /\ ret = NoRet
    /\ regConfig \in BridgeConfigs
    /\ rooms = [r \in {SFURoom} |->
                  JoinedRoom(JoinedRoom(JoinedRoom(NewRoom(SFURoom),
                                                   "h1", "Host"),
                                        "p1", "Player"),
                             "p2", "Player")]
    /\ expiredCalls = {}
    /\ NoGame
    /\ clients = [c \in Conns |->
                    [playerID |-> PlayerOf[c], name |-> "Player",
                     roomID |-> SFURoom]]
    /\ closed = {}
    /\ msgs = [c \in Conns |-> 1]
    /\ gameRooms = [r \in {SFURoom} |->
                      [ID |-> SFURoom, Port |-> Port(SFURoom),
                       Inbox |-> <<>>, State |-> {}, Bound |-> TRUE]]
    /\ workers = [port \in {Port(SFURoom)} |->
                    [NewWorker EXCEPT !.inbox =
                        { [PlayerId |-> PlayerOf[c], addr |-> SFURoom] :
                             c \in Conns }]]
    /\ NewManager
    /\ NewEngine
    /\ NoInputs
    /\ NoLocks
    /\ NoJoins

NextSFU ==
    \/ \E playerID \in SFUPlayers, valid \in BOOLEAN :
           CreatePeerConnection(playerID, valid)
    \/ \E playerID \in SFUPlayers : HandleOfferAddTracks(playerID)
    \/ \E playerID \in SFUPlayers : HandleOfferAnswer(playerID)
    \/ \E playerID \in SFUPlayers, kind \in Kinds : OnTrack(playerID, kind)
    \/ \E f \in forwards : forwardTrackToOthers(f)
    \/ \E f \in forwards : \E playerID \in f.to : forwardQueue(f, playerID)
    \/ handleWebRTCTracks
    \/ \E playerID \in SFUPlayers : RemovePeerConnection(playerID)
    \/ \E playerID \in SFUPlayers, valid \in BOOLEAN :
           HandleAnswer(playerID, valid)
    \/ \E playerID \in SFUPlayers, valid \in BOOLEAN :
           HandleICECandidate(playerID, valid)

SpecSFU == InitSFU /\ [][NextSFU]_vars

(***************************************************************************)
(* Claims about the SFU manager                                            *)
(***************************************************************************)
\* C23: no PeerConnection, open or closed, holds a sender whose local track
\* was made from a track of its own player.
C23_NoSelfEcho ==
    \A i \in DOMAIN pcs :
       \A track \in DOMAIN pcs[i].senders : track.from # pcs[i].owner

C23_Witness ==
    /\ ret.op = "HandleOffer"
    /\ ret.err = ""
    /\ ret.answer # <<>>
    /\ ret.player \in DOMAIN audioTracks \cup DOMAIN videoTracks

\* C24: the answer HandleOffer returns for a player that had no connection
\* covers every audio and video track the other players have published
\* when the answer is created.
C24_NewJoinerGetsAllTracks ==
    [][(/\ CallStep({"HandleOffer"})
        /\ ret'.fresh
        /\ ret'.err = "")
       => \A q \in SFUPlayers \ {ret'.player} :
             /\ q \in DOMAIN audioTracks
                   => audioTracks[q] \in DOMAIN ret'.answer
             /\ q \in DOMAIN videoTracks
                   => videoTracks[q] \in DOMAIN ret'.answer]_vars

C24_Witness ==
    /\ ret.op = "HandleOffer"
    /\ ret.fresh
    /\ ret.err = ""
    /\ \E q \in SFUPlayers \ {ret.player} :
          /\ q \in DOMAIN audioTracks
          /\ q \in DOMAIN videoTracks
          /\ {audioTracks[q], videoTracks[q]} \subseteq DOMAIN ret.answer

\* the players the manager keeps a connection or a track record of
Recorded ==
    DOMAIN peerConns \cup DOMAIN incomingTracks
        \cup DOMAIN audioTracks \cup DOMAIN videoTracks

\* C26: after RemovePeerConnection(p) the manager holds no connection and no
\* audio, video or incoming track record of p, and a repeated call changes
\* nothing; HandleAnswer(p), HandleICECandidate(p) and CreateOffer(p) for a
\* player without connection return no error and change nothing, and its
\* renegotiation events lead to no offer.
C26_RemovedPeerErased ==
    [][/\ CallStep({"RemovePeerConnection"})
            => /\ ret'.player \notin Recorded'
               /\ ~ret'.existed => UNCHANGED sfuVars
       /\ (/\ CallStep({"HandleAnswer", "HandleICECandidate"})
           /\ ret'.player \notin DOMAIN peerConns)
            => (ret'.err = "" /\ UNCHANGED sfuVars)
       /\ (CallStep({"renegotiate"}) /\ ret'.player \notin DOMAIN peerConns)
            => (/\ ~ret'.sent
                /\ UNCHANGED <<pcs, peerConns, incomingTracks, audioTracks,
                               videoTracks>>)]_vars

(***************************************************************************)
(* The manager while handleWebRTCTracks is not reading: the goroutine is    *)
(* inside a WriteJSON, or has not been scheduled, and the channel holds     *)
(* 100 events of players that have been removed since.                      *)
(***************************************************************************)
Backlog ==
    [i \in 1..renegotiateCap |->
        [PlayerID |-> "p0", Track |-> LocalTrack("p9", "audio", 0)]]

InitBacklog ==
    /\ now = 0
    /\ ret = NoRet
    /\ regConfig \in BridgeConfigs
    /\ rooms = [r \in {SFURoom} |->
                  JoinedRoom(JoinedRoom(JoinedRoom(NewRoom(SFURoom),
                                                   "h1", "Host"),
                                        "p1", "Player"),
                             "p2", "Player")]
    /\ expiredCalls = {}
    /\ NoGame
    /\ clients = [c \in Conns |->
                    [playerID |-> PlayerOf[c], name |-> "Player",
                     roomID |-> SFURoom]]
    /\ closed = {}
    /\ msgs = [c \in Conns |-> 1]
    /\ gameRooms = [r \in {SFURoom} |->
                      [ID |-> SFURoom, Port |-> Port(SFURoom),
                       Inbox |-> <<>>, State |-> {}, Bound |-> TRUE]]
    /\ workers = [port \in {Port(SFURoom)} |->
                    [NewWorker EXCEPT !.inbox =
                        { [PlayerId |-> PlayerOf[c], addr |-> SFURoom] :
                             c \in Conns }]]
    /\ pcs = <<>>
    /\ peerConns = <<>>
    /\ incomingTracks = <<>>
    /\ audioTracks = <<>>
    /\ videoTracks = <<>>
    /\ renegotiateChan = Backlog
    /\ offers = <<>>
    /\ forwards = {}
    /\ NewEngine
    /\ NoInputs
    /\ NoLocks
    /\ NoJoins

NextBacklog ==
    \/ \E playerID \in SFUPlayers, valid \in BOOLEAN :
           CreatePeerConnection(playerID, valid)
    \/ \E playerID \in SFUPlayers : HandleOfferAddTracks(playerID)
    \/ \E playerID \in SFUPlayers : HandleOfferAnswer(playerID)
    \/ \E playerID \in SFUPlayers, kind \in Kinds : OnTrack(playerID, kind)
    \/ \E f \in forwards : forwardTrackToOthers(f)
    \/ \E f \in forwards : \E playerID \in f.to : forwardQueue(f, playerID)
    \/ \E playerID \in SFUPlayers : RemovePeerConnection(playerID)

SpecBacklog == InitBacklog /\ [][NextBacklog]_vars

\* C25: forwardTrackToOthers lists exactly the other players that have a
\* connection and adds the local track to each of them, and for each listed
\* player one RenegotiateEvent is put on the channel, after the track was
\* added to a connection of that player.
C25_EventPerPeer ==
    [][/\ CallStep({"forwardTrackToOthers"})
            => /\ ret'.to = DOMAIN peerConns \ {ret'.track.from}
               /\ \A q \in ret'.to :
                     ret'.track \in DOMAIN pcs'[peerConns[q]].senders
       /\ CallStep({"queue"})
            => /\ ~ret'.dropped
               /\ renegotiateChan' = Append(renegotiateChan, ret'.event)
               /\ \E i \in DOMAIN pcs :
                     /\ pcs[i].owner = ret'.event.PlayerID
                     /\ ret'.event.Track \in DOMAIN pcs[i].senders]_vars

(***************************************************************************)
(* Claims about the inputs of game.State                                   *)
(***************************************************************************)
RECURSIVE AfterInputs(_, _, _)
\* the player after the first n entries of the queue were applied one after
\* the other
AfterInputs(player, queue, n) ==
    IF n = 0 THEN player
    ELSE ApplyOne(AfterInputs(player, queue, n - 1), queue[n])

MaxCoord == 3

\* twentieths of a world unit in one world unit: the scale in which the
\* float32 values and the threshold of hasChanged are whole numbers
Unit == 20

\* const epsilon = 0.1, in twentieths of a world unit
epsilon == 2

DeltaIDs == {"p1", "p2"}

Fields == {"x", "y", "vx", "vy"}

\* &playerSnapshot{} of a player that rests at the origin
Origin == [x |-> 0, y |-> 0, vx |-> 0, vy |-> 0]

\* the values SpecDelta gives a player: at most one field away from zero
Snapshots ==
    {Origin} \cup {[Origin EXCEPT ![f] = v] : f \in Fields, v \in 1..MaxCoord}

abs(x) == IF x < 0 THEN -x ELSE x

\* a hasChanged that reports a difference of exactly epsilon
hasChangedAtEpsilon(old, new) ==
    \/ abs(new.x - old.x) >= epsilon
    \/ abs(new.y - old.y) >= epsilon
    \/ abs(new.vx - old.vx) >= epsilon
    \/ abs(new.vy - old.vy) >= epsilon

hasChanged(old, new) ==
    \/ abs(new.x - old.x) > epsilon
    \/ abs(new.y - old.y) > epsilon
    \/ abs(new.vx - old.vx) > epsilon
    \/ abs(new.vy - old.vy) > epsilon

\* ComputeDelta(players, fullSync) on a tracker whose lastStates is `last`;
\* list maps the id of each player of the slice to its snapshot.  The result
\* holds both return values and the lastStates the call leaves.
ComputeDelta(last, list, fullSync) ==
    LET removed == DOMAIN last \ DOMAIN list
        kept == [id \in DOMAIN last \ removed |-> last[id]]
        changed == { id \in DOMAIN list :
                        IF fullSync \/ id \notin DOMAIN kept THEN TRUE
                        ELSE hasChanged(kept[id], list[id]) }
    IN  [changed |-> [id \in changed |-> list[id]],
         removed |-> removed,
         lastStates |-> [id \in DOMAIN kept \cup changed |->
                            IF id \in changed THEN list[id] ELSE kept[id]]]

\* the history of the values a peer has been sent, after a call
Emitted(list, delta) ==
    [id \in { i \in DOMAIN list :
                i \in DOMAIN delta.changed \/ i \in DOMAIN emitted } |->
        IF id \in DOMAIN delta.changed THEN list[id] ELSE emitted[id]]

DeltaFrame ==
    UNCHANGED <<now, gameVars, roomVars, bridgeVars, sfuVars, tickNo,
                departed, lifeVars, inputVars, lockVars, joinVars>>

\* the caller appends a player to its slice or writes the player's fields
\* (TestDeltaTracker: players[0].Position.X = 150)
Place(id, snapshot) ==
    /\ deltaPlayers' = Put(deltaPlayers, id, snapshot)
    /\ ret' = [op |-> "Place"]
    /\ UNCHANGED <<lastStates, emitted>>
    /\ DeltaFrame

\* the caller takes a player out of its slice (players = players[:1])
Take(id) ==
    /\ id \in DOMAIN deltaPlayers
    /\ deltaPlayers' = Drop(deltaPlayers, id)
    /\ ret' = [op |-> "Take"]
    /\ UNCHANGED <<lastStates, emitted>>
    /\ DeltaFrame

\* tracker.ComputeDelta(players, fullSync)
CallComputeDelta(fullSync) ==
    /\ LET delta == ComputeDelta(lastStates, deltaPlayers, fullSync)
       IN /\ lastStates' = delta.lastStates
          /\ emitted' = Emitted(deltaPlayers, delta)
          /\ ret' = [op |-> "ComputeDelta", fullSync |-> fullSync,
                     changed |-> delta.changed, removed |-> delta.removed]
    /\ UNCHANGED deltaPlayers
    /\ DeltaFrame

\* tracker.Clear()
Clear ==
    /\ lastStates' = <<>>
    /\ emitted' = <<>>
    /\ ret' = [op |-> "Clear"]
    /\ UNCHANGED deltaPlayers
    /\ DeltaFrame

\* NewDeltaTracker()
InitDelta ==
    /\ now = 0
    /\ ret = NoRet
    /\ NoGame
    /\ NoRegistry
    /\ NoBridge
    /\ NewManager
    /\ NewEngine
    /\ NoInputs
    /\ NoLocks
    /\ NoJoins

NextDelta ==
    \/ \E id \in DeltaIDs, snapshot \in Snapshots : Place(id, snapshot)
    \/ \E id \in DeltaIDs : Take(id)
    \/ \E fullSync \in BOOLEAN : CallComputeDelta(fullSync)
    \/ Clear

SpecDelta == InitDelta /\ [][NextDelta]_vars

\* every field of every player of the list is within epsilon of the value
\* last emitted for that player
Stable ==
    /\ DOMAIN deltaPlayers = DOMAIN emitted
    /\ \A id \in DOMAIN deltaPlayers, f \in Fields :
          abs(deltaPlayers[id][f] - emitted[id][f]) <= epsilon

\* C27: a ComputeDelta(players, false) call on a list that has the ids of the
\* list of the call before it, and whose x, y, vx and vy are each within
\* epsilon of the values last emitted, returns no changed and no removed
\* player.
C27_DeltaMinimal ==
    [][(ret'.op = "ComputeDelta" /\ ~ret'.fullSync /\ Stable)
          => (ret'.changed = <<>> /\ ret'.removed = {})]_vars

\* a quiet call on two players of which one has drifted, within epsilon,
\* from what was emitted
C27_Witness ==
    /\ ret.op = "ComputeDelta"
    /\ ~ret.fullSync
    /\ ret.changed = <<>>
    /\ ret.removed = {}
    /\ DOMAIN deltaPlayers = DeltaIDs
    /\ Stable
    /\ \E id \in DeltaIDs : deltaPlayers[id] # emitted[id]

(***************************************************************************)
(* game.Engine                                                             *)
(***************************************************************************)
\* the most ticks one engine runs
MaxTicks == 3

EngineIDs == {"p1", "p2"}

\* the players whose clients send input
EngineSenders == {"p1"}

\* Config values explored by SpecEngine: room for two players
EngineConfigs ==
    { [TickRate |-> 1, MaxPlayers |-> 2, PlayerSpeed |-> 1,
       WorldWidth |-> 2, WorldHeight |-> 2] }

\* the playerSnapshot ComputeDelta takes of a player
Snapshot(player) ==
    [x |-> player.Position[1] * Unit, y |-> player.Position[2] * Unit,
     vx |-> player.Velocity[1] * Unit, vy |-> player.Velocity[2] * Unit]

\* e.state.AllPlayers(), as ComputeDelta reads it
AllPlayers == [id \in DOMAIN players |-> Snapshot(players[id])]

EngineFrame ==
    UNCHANGED <<roomVars, bridgeVars, sfuVars, deltaPlayers, inputVars,
                lockVars, joinVars>>

\* Engine.Start()
Start ==
    /\ ~crashed
    /\ stopper = "idle"
    /\ IF running
       THEN UNCHANGED <<running, loops>>
       ELSE /\ running' = TRUE
            /\ loops' = loops + 1
    /\ ret' = [op |-> "Start"]
    /\ UNCHANGED <<now, gameVars, tickNo, lastStates, emitted, departed,
                   stopCh, stopper, crashed>>
    /\ EngineFrame

\* Engine.Stop() up to e.wg.Wait(); closing a closed channel panics
Stop ==
    /\ ~crashed
    /\ stopper = "idle"
    /\ IF ~running
       THEN /\ ret' = [op |-> "Stop", returned |-> TRUE]
            /\ UNCHANGED <<running, stopCh, stopper, crashed>>
       ELSE /\ running' = FALSE
            /\ IF stopCh = "closed"
               THEN /\ crashed' = TRUE
                    /\ UNCHANGED <<stopCh, stopper>>
               ELSE /\ stopCh' = "closed"
                    /\ stopper' = "waiting"
                    /\ UNCHANGED crashed
            /\ ret' = [op |-> "Stop", returned |-> FALSE]
    /\ UNCHANGED <<now, gameVars, tickNo, lastStates, emitted, departed,
                   loops>>
    /\ EngineFrame

\* e.wg.Wait() returns and so does Stop
StopReturns ==
    /\ ~crashed
    /\ stopper = "waiting"
    /\ loops = 0
    /\ stopper' = "idle"
    /\ ret' = [op |-> "Stop", returned |-> TRUE]
    /\ UNCHANGED <<now, gameVars, tickNo, lastStates, emitted, departed,
                   running, stopCh, loops, crashed>>
    /\ EngineFrame

\* one turn of tickLoop that takes `case <-ticker.C`: e.tick(), and
\* e.broadcastState() when `due` (broadcastInterval has passed)
tickLoop(due) ==
    /\ ~crashed
    /\ loops > 0
    /\ tickNo < MaxTicks
    /\ tickNo' = tickNo + 1
    /\ players' = [id \in DOMAIN players |-> ProcessPlayer(players[id])]
    /\ applied' = [id \in PlayerIDs |->
                    IF id \in DOMAIN players
                    THEN applied[id] \cup QueuedSeqs(players[id])
                    ELSE applied[id]]
    /\ LET list == [id \in DOMAIN players |-> Snapshot(players'[id])]
           delta == ComputeDelta(lastStates, list, FALSE)
       IN IF ~due \/ DOMAIN players = {}
          THEN /\ ret' = [op |-> "tickLoop", tick |-> tickNo', sent |-> FALSE]
               /\ UNCHANGED <<lastStates, emitted, departed>>
          ELSE /\ lastStates' = delta.lastStates
               /\ emitted' = Emitted(list, delta)
               /\ IF delta.changed = <<>> /\ delta.removed = {}
                  THEN /\ ret' = [op |-> "tickLoop", tick |-> tickNo',
                                  sent |-> FALSE]
                       /\ UNCHANGED departed
                  ELSE /\ ret' = [op |-> "tickLoop", tick |-> tickNo',
                                  sent |-> TRUE,
                                  changed |-> delta.changed,
                                  removed |-> delta.removed]
                       /\ departed' = departed \ delta.removed
    /\ UNCHANGED <<now, config, lifeVars>>
    /\ EngineFrame

\* tickLoop takes `case <-e.stopCh` and returns
tickLoopReturns ==
    /\ ~crashed
    /\ loops > 0
    /\ stopCh = "closed"
    /\ loops' = loops - 1
    /\ ret' = [op |-> "tickLoop", tick |-> tickNo, sent |-> FALSE,
               returned |-> TRUE]
    /\ UNCHANGED <<now, gameVars, tickNo, lastStates, emitted, departed,
                   running, stopCh, stopper, crashed>>
    /\ EngineFrame

\* Engine.AddPlayer(name, addr); id is the uuid State.AddPlayer drew
EngineAddPlayer(id) ==
    /\ ~crashed
    /\ IF RoomIsFull
       THEN /\ ret' = [op |-> "Engine.AddPlayer", id |-> id, ok |-> FALSE]
            /\ UNCHANGED <<players, applied, departed>>
       ELSE /\ players' = Put(players, id, NewPlayer(id))
            /\ applied' = [applied EXCEPT ![id] = {}]
            /\ departed' = departed \ {id}
            /\ ret' = [op |-> "Engine.AddPlayer", id |-> id, ok |-> TRUE]
    /\ UNCHANGED <<now, config, tickNo, lastStates, emitted, lifeVars>>
    /\ EngineFrame

\* Engine.RemovePlayer(id)
Engine_RemovePlayer(id) ==
    /\ ~crashed
    /\ IF id \notin DOMAIN players
       THEN /\ ret' = [op |-> "Engine.RemovePlayer", id |-> id, ok |-> FALSE]
            /\ UNCHANGED <<players, applied, lastStates, emitted, departed>>
       ELSE /\ players' = Drop(players, id)
            /\ applied' = [applied EXCEPT ![id] = {}]
            /\ lastStates' = Drop(lastStates, id)
            /\ emitted' = Drop(emitted, id)
            /\ departed' = IF id \in DOMAIN emitted
                           THEN departed \cup {id} ELSE departed
            /\ ret' = [op |-> "Engine.RemovePlayer", id |-> id, ok |-> TRUE]
    /\ UNCHANGED <<now, config, tickNo, lifeVars>>
    /\ EngineFrame

\* Engine.ApplyInput(playerID, input) is State.ApplyInput
EngineApplyInput(id, input) ==
    /\ ~crashed
    /\ ApplyInput(id, input)

\* NewEngine(config, broadcaster)
InitEngine ==
    /\ now = 0
    /\ ret = NoRet
    /\ config \in EngineConfigs
    /\ players = <<>>
    /\ applied = [id \in PlayerIDs |-> {}]
    /\ NoRegistry
    /\ NoBridge
    /\ NewManager
    /\ NewEngine
    /\ NoInputs
    /\ NoLocks
    /\ NoJoins

NextEngine ==
    \/ Start
    \/ Stop
    \/ StopReturns
    \/ \E due \in BOOLEAN : tickLoop(due)
    \/ tickLoopReturns
    \/ \E id \in EngineIDs : EngineAddPlayer(id)
    \/ \E id \in EngineIDs : Engine_RemovePlayer(id)
    \/ \E id \in EngineSenders, input \in Inputs : EngineApplyInput(id, input)

SpecEngine == InitEngine /\ [][NextEngine]_vars

\* C28: Engine.RemovePlayer(p) leaves the delta tracker without p, and the
\* next StateDelta the worker broadcasts lists in its removed set exactly the
\* players that were removed after a delta had carried them and that no delta
\* has listed yet, so each of them once and never again.
C28_RemovedAnnouncedOnce ==
    [][/\ (ret'.op = "Engine.RemovePlayer" /\ ret'.ok)
            => ret'.id \notin DOMAIN lastStates'
       /\ (ret'.op = "tickLoop" /\ ret'.sent)
            => ret'.removed = departed]_vars

\* C29: no Start or Stop call panics, at most one tick loop runs, and between
\* calls a loop runs exactly when the last effective call was Start: after
\* Stop has returned no loop is left to advance the tick counter.
C29_LifecycleIdempotent ==
    /\ ~crashed
    /\ loops <= 1
    /\ stopper = "idle" => (running <=> loops = 1)

(***************************************************************************)
(* Further claims about the SFU manager                                    *)
(***************************************************************************)
\* the senders the connection holds for the tracks of one kind of one player
SendersFor(pc, from, kind) ==
    LET tracks == { t \in DOMAIN pc.senders : t.from = from /\ t.kind = kind }
        sum[ts \in SUBSET tracks] ==
            IF ts = {} THEN 0
            ELSE LET t == CHOOSE x \in ts : TRUE
                 IN pc.senders[t] + sum[ts \ {t}]
    IN sum[tracks]

\* C36: no PeerConnection holds more than one sender for the same source
\* player and track kind, whether HandleOffer of the peer runs while a
\* track of another player is being forwarded or HandleOffer is repeated
\* for a peer that has a connection.
C36_OneSenderPerSource ==
    \A i \in DOMAIN pcs :
       \A from \in SFUPlayers, kind \in Kinds :
          SendersFor(pcs[i], from, kind) <= 1

\* C38: every player with an entry in audioTracks or videoTracks has an
\* entry in peerConns.
C38_TracksHavePeer ==
    DOMAIN audioTracks \cup DOMAIN videoTracks \subseteq DOMAIN peerConns

(***************************************************************************)
(* Further claims about the gateway                                        *)
(***************************************************************************)
\* C39: the playerID of a session is a member of no room of the registry
\* other than the room recorded in the session's roomID.
C39_MemberOfOwnRoomOnly ==
    \A c \in DOMAIN clients :
       \A r \in DOMAIN rooms :
          clients[c].playerID \in DOMAIN rooms[r].Players
             => clients[c].roomID = r

(***************************************************************************)
(* Further claims about the registry                                       *)
(***************************************************************************)
\* C31: every Registry.Create stores its room under an id that no room of
\* the registry had, leaves every room that was there as it was, and raises
\* Count() by exactly one.
C31_CreateIsFresh ==
    [][CallStep({"Create"})
       => (/\ ret'.room \notin DOMAIN rooms
           /\ \A id \in DOMAIN rooms :
                 id \in DOMAIN rooms' /\ rooms'[id] = rooms[id]
           /\ Cardinality(DOMAIN rooms') = Cardinality(DOMAIN rooms) + 1)]_vars

\* the players SpecElection lets join, and its one display name
ElectionIDs == {"p1", "p2", "p3"}

ElectionRoom == "r1"

\* room for a host and two more members
ElectionConfigs == { [MaxPlayers |-> 3, RoomTTL |-> 0] }

\* NewRegistry(config), Create() having returned ElectionRoom
InitElection ==
    /\ now = 0
    /\ ret = NoRet
    /\ regConfig \in ElectionConfigs
    /\ rooms = [id \in {ElectionRoom} |-> NewRoom(id)]
    /\ expiredCalls = {}
    /\ NoGame
    /\ NoBridge
    /\ NewManager
    /\ NewEngine
    /\ NoInputs
    /\ NoLocks
    /\ NoJoins

NextElection ==
    \/ \E playerID \in ElectionIDs : Join(ElectionRoom, playerID, "ann")
    \/ \E playerID \in ElectionIDs : Leave(ElectionRoom, playerID)
    \/ AdvanceClock

SpecElection == InitElection /\ [][NextElection]_vars

\* C32: when the host leaves a room in which members remain, Room.Leave has
\* one outcome: the new host is determined by the room it is called on, and
\* it is one of the remaining members.
C32_ElectionDeterministic ==
    \A roomID \in DOMAIN rooms : \A playerID \in DOMAIN rooms[roomID].Players :
        \A a, b \in LeaveOutcomes(rooms[roomID], playerID) :
            /\ a.HostID = b.HostID
            /\ DOMAIN a.Players # {} => a.HostID \in DOMAIN a.Players

\* C37: a Registry.Join that returns without error has added the player to
\* the Room that r.rooms holds under the id at that moment, whatever
\* Delete and the sweep did since its lookup.
C37_JoinedRoomIsRegistered ==
    (ret.op = "Join" /\ ret.err = "") => ret.registered

(***************************************************************************)
(* The input path: handleWS "input", the worker's handlePlayerInput        *)
(***************************************************************************)
\* the last millisecond of the wall clock SpecInput reaches
MaxMillis == 2

InputRoom == "a1"

\* gr.UDPConn.Write(inputData): the datagram joins those the worker has not
\* read, unless the socket buffer is full
Written(datagram) == Receive(wire, <<datagram>>)

\* handleWS, case "input"; movement is <<dx, dy>> of the frame
input(c, movement) ==
    /\ c \in DOMAIN clients
    /\ IF clients[c].roomID = ""
       THEN /\ ret' = [op |-> "input", conn |-> c, forwarded |-> FALSE]
            /\ UNCHANGED inputVars
       ELSE IF clients[c].roomID \notin DOMAIN gameRooms
       THEN /\ ret' = [op |-> "input", conn |-> c, forwarded |-> FALSE]
            /\ UNCHANGED inputVars
       ELSE LET ts == now
            IN /\ wire' = Written([PlayerId |-> clients[c].playerID,
                                   Sequence |-> ts, Timestamp |-> ts,
                                   Movement |-> movement])
               /\ lastSent' = [lastSent EXCEPT ![c] = ts]
               /\ ret' = [op |-> "input", conn |-> c, forwarded |-> TRUE,
                          seq |-> ts]
    /\ UNCHANGED <<now, gameVars, roomVars, bridgeVars, sfuVars, engineVars,
                   lockVars, joinVars>>

\* the worker's handlePlayerInput for the oldest datagram of its socket; a
\* player is in playerMap exactly when it is in the state (handleClientHello
\* adds it to both)
handlePlayerInput ==
    /\ wire # <<>>
    /\ wire' = Tail(wire)
    /\ LET in == Head(wire)
           id == in.PlayerId
           known == id # "" /\ id \in DOMAIN players
       IN /\ known => Len(players[id].InputQueue) < MaxQueue
          /\ IF ~known
             THEN /\ ret' = [op |-> "PlayerInput", id |-> id,
                             seq |-> in.Sequence, known |-> FALSE,
                             ok |-> FALSE]
                  /\ UNCHANGED players
             ELSE IF Stale(players[id], in)
             THEN /\ ret' = [op |-> "PlayerInput", id |-> id,
                             seq |-> in.Sequence, known |-> TRUE,
                             ok |-> FALSE]
                  /\ UNCHANGED players
             ELSE /\ players' = [players EXCEPT
                        ![id].InputQueue =
                            Append(@, [Sequence |-> in.Sequence,
                                       Movement |-> in.Movement]),
                        ![id].LastSeen = now]
                  /\ ret' = [op |-> "PlayerInput", id |-> id,
                             seq |-> in.Sequence, known |-> TRUE,
                             ok |-> TRUE]
    /\ UNCHANGED <<now, config, applied, lastSent, roomVars, bridgeVars,
                   sfuVars, engineVars, lockVars, joinVars>>

\* the wall clock reaches the next millisecond
Millisecond ==
    /\ now < MaxMillis
    /\ now' = now + 1
    /\ UNCHANGED <<ret, gameVars, roomVars, bridgeVars, sfuVars, engineVars,
                   inputVars, lockVars, joinVars>>

\* two sessions after join_room for InputRoom; the worker has admitted the
\* player of c1, and the hello of c2 has not reached it
InitInput ==
    /\ now = 1
    /\ ret = NoRet
    /\ config \in Configs
    /\ players = [id \in {PlayerOf["c1"]} |-> NewPlayer(id)]
    /\ applied = [id \in PlayerIDs |-> {}]
    /\ regConfig \in BridgeConfigs
    /\ rooms = [r \in {InputRoom} |->
                  JoinedRoom(JoinedRoom(JoinedRoom(NewRoom(InputRoom),
                                                   "h1", "Host"),
                                        "p1", "Player"),
                             "p2", "Player")]
    /\ expiredCalls = {}
    /\ clients = [c \in Conns |->
                    [playerID |-> PlayerOf[c], name |-> "Player",
                     roomID |-> InputRoom]]
    /\ closed = {}
    /\ msgs = [c \in Conns |-> 1]
    /\ gameRooms = [r \in {InputRoom} |->
                      [ID |-> InputRoom, Port |-> Port(InputRoom),
                       Inbox |-> <<>>, State |-> {}, Bound |-> TRUE]]
    /\ workers = [port \in {Port(InputRoom)} |->
                    [NewWorker EXCEPT
                        !.players = [id \in {"p1"} |-> InputRoom],
                        !.playerMap = [id \in {"p1"} |-> InputRoom]]]
    /\ NewManager
    /\ NewEngine
    /\ wire = <<>>
    /\ lastSent = [c \in Conns |-> 0]
    /\ NoLocks
    /\ NoJoins

NextInput ==
    \/ \E c \in Conns, movement \in Movements : input(c, movement)
    \/ handlePlayerInput
    \/ ProcessInputs
    \/ Millisecond

SpecInput == InitInput /\ [][NextInput]_vars

\* C33: every PlayerInput the gateway forwards for a session has a Sequence
\* above that of the one it forwarded before for the session, and the worker
\* rejects none of the inputs of an admitted player as stale.
C33_ForwardedSeqIncreasing ==
    [][/\ (CallStep({"input"}) /\ ret'.forwarded)
            => ret'.seq > lastSent[ret'.conn]
       /\ (CallStep({"PlayerInput"}) /\ ret'.known) => ret'.ok]_vars

\* C34: each velocity component of every player is at most PlayerSpeed in
\* magnitude: a movement component outside [-1, 1] is clamped before it is
\* applied.
C34_MovementClamped ==
    \A id \in DOMAIN players :
        /\ abs(players[id].Velocity[1]) <= config.PlayerSpeed
        /\ abs(players[id].Velocity[2]) <= config.PlayerSpeed

(***************************************************************************)
(* The mutexes of the gateway process                                      *)
(*                                                                         *)
(* Each function is followed through its Lock, RLock, Unlock and RUnlock   *)
(* calls and its calls that wait for something outside the process.  A     *)
(* sync.RWMutex admits a Lock caller when it has no writer and no reader,  *)
(* and an RLock caller when it has no writer and no Lock caller is blocked.*)
(***************************************************************************)
\* Bridge.mu, Registry.mu, Room.mu, GameRoom.Mu and webrtc.Manager.mu, for
\* one room
Mutexes == {"b.mu", "r.mu", "room.mu", "gr.Mu", "m.mu"}

L(l) == [op |-> "Lock", on |-> l]
R(l) == [op |-> "RLock", on |-> l]
U(l) == [op |-> "Unlock", on |-> l]
RU(l) == [op |-> "RUnlock", on |-> l]
Call(what) == [op |-> "call", on |-> what]

\* the calls that wait for a timer, a child process, a socket or a peer
BlockingCalls == {"sleep", "spawn", "write", "read"}

\* handleWS "join_room": Registry.Join, Room.Join, spawnGameServer (a new
\* server), the hello, room_joined, PlayerCount, broadcastToRoom
join_roomLocks ==
    << L("r.mu"), U("r.mu"), L("room.mu"), U("room.mu"),
       L("b.mu"), Call("spawn"), Call("sleep"), U("b.mu"),
       Call("write"), R("room.mu"), RU("room.mu"), Call("write"),
       R("b.mu"), Call("write"), RU("b.mu") >>

\* a Room.Leave that looks the room up in the registry while it holds the
\* room
leave_roomInverted ==
    << L("room.mu"), R("r.mu"), RU("r.mu"), U("room.mu"),
       R("b.mu"), Call("write"), RU("b.mu") >>

\* handleWS "leave_room": Registry.Get, Room.Leave, broadcastToRoom
leave_roomLocks ==
    << R("r.mu"), RU("r.mu"), L("room.mu"), U("room.mu"),
       R("b.mu"), Call("write"), RU("b.mu") >>

\* the cleanup of handleWS: the session leaves b.clients, then as leave_room
cleanupLocks ==
    << L("b.mu"), U("b.mu"), R("r.mu"), RU("r.mu"), L("room.mu"),
       U("room.mu"), R("b.mu"), Call("write"), RU("b.mu") >>

\* handleWS "input": the gameRooms lookup, gr.UDPConn.Write
inputLocks == << R("b.mu"), RU("b.mu"), Call("write") >>

\* handleWS "webrtc_offer": the gameRooms lookup, CreatePeerConnection,
\* HandleOffer's AddTrack loops, the answer
webrtc_offerLocks ==
    << R("b.mu"), RU("b.mu"), L("m.mu"), U("m.mu"),
       R("m.mu"), RU("m.mu"), Call("write") >>

\* receiveUDP for a StateDelta: gr.UDPConn.Read, the update of gr.State,
\* broadcastRoomState
receiveUDPLocks ==
    << Call("read"), L("gr.Mu"), U("gr.Mu"),
       R("b.mu"), R("gr.Mu"), RU("gr.Mu"), Call("write"), RU("b.mu") >>

\* one round of cleanupLoop: the ticker, IsExpired on the room under r.mu
cleanupLoopLocks ==
    << Call("sleep"), L("r.mu"), R("room.mu"), RU("room.mu"), U("r.mu") >>

\* go r.onRoomExpired(room): stopGameRoom
stopGameRoomLocks == << L("b.mu"), Call("kill"), U("b.mu") >>

\* handleDeleteRoom up to its reply: Registry.Get, stopGameRoom,
\* Registry.Delete
handleDeleteRoomLocks ==
    << R("r.mu"), RU("r.mu"), L("b.mu"), Call("kill"), U("b.mu"),
       L("r.mu"), U("r.mu") >>

\* handleCreateRoom up to its reply: Registry.Create, Room.Join
handleCreateRoomLocks ==
    << L("r.mu"), U("r.mu"), L("room.mu"), U("room.mu") >>

\* forwardTrackToOthers up to its RTP loop
forwardTrackToOthersLocks == << L("m.mu"), U("m.mu") >>

\* RemovePeerConnection: pc.Close() under m.mu
RemovePeerConnectionLocks == << L("m.mu"), Call("close"), U("m.mu") >>

\* handleWebRTCTracks for one event, up to the offer it sends: CreateOffer,
\* the clients lookup
handleWebRTCTracksLocks ==
    << R("m.mu"), RU("m.mu"), R("b.mu"), RU("b.mu") >>

Programs ==
    [join_room |-> join_roomLocks,
     leave_room |-> leave_roomLocks,
     cleanup |-> cleanupLocks,
     input |-> inputLocks,
     webrtc_offer |-> webrtc_offerLocks,
     receiveUDP |-> receiveUDPLocks,
     cleanupLoop |-> cleanupLoopLocks,
     stopGameRoom |-> stopGameRoomLocks,
     handleDeleteRoom |-> handleDeleteRoomLocks,
     handleCreateRoom |-> handleCreateRoomLocks,
     forwardTrackToOthers |-> forwardTrackToOthersLocks,
     RemovePeerConnection |-> RemovePeerConnectionLocks,
     handleWebRTCTracks |-> handleWebRTCTracksLocks]

\* the goroutines followed and what each of them runs: the handleWS of one
\* session; receiveUDP(gr); cleanupLoop; one that serves an HTTP request or
\* the expiry callback; one that runs a callback of a peer connection or
\* handleWebRTCTracks
Runs ==
    [ws |-> {"join_room", "leave_room", "input", "webrtc_offer", "cleanup"},
     udp |-> {"receiveUDP"},
     sweep |-> {"cleanupLoop"},
     admin |-> {"stopGameRoom", "handleDeleteRoom", "handleCreateRoom"},
     sfu |-> {"forwardTrackToOthers", "RemovePeerConnection",
              "handleWebRTCTracks"}]

Goroutines == DOMAIN Runs

Resting == [fn |-> "", at |-> 0]

\* the call the goroutine is at, if it runs a function
At(a) == Programs[acts[a].fn][acts[a].at]

Running(a) == acts[a].fn # ""

\* the mutexes the goroutine holds
Held(a) == { l \in Mutexes : locks[l].writer = a \/ a \in locks[l].readers }

\* the goroutine has made the call it is at
Advanced(a) ==
    IF acts[a].at = Len(Programs[acts[a].fn])
    THEN [acts EXCEPT ![a] = Resting]
    ELSE [acts EXCEPT ![a].at = @ + 1]

\* whether the mutex admits the Lock or RLock the goroutine is at
Admits(a) ==
    LET m == locks[At(a).on]
    IN IF At(a).op = "Lock"
       THEN m.writer = "" /\ m.readers = {}
       ELSE m.writer = "" /\ m.blocked = {}

\* the goroutine starts one of its functions
Begin(a, fn) ==
    /\ ~Running(a)
    /\ fn \in Runs[a]
    /\ acts' = [acts EXCEPT ![a] = [fn |-> fn, at |-> 1]]
    /\ UNCHANGED <<now, ret, locks, gameVars, roomVars, bridgeVars, sfuVars,
                   engineVars, inputVars, joinVars>>

\* Lock or RLock returns
Acquire(a) ==
    /\ Running(a)
    /\ At(a).op \in {"Lock", "RLock"}
    /\ Admits(a)
    /\ locks' = [locks EXCEPT ![At(a).on] =
                    IF At(a).op = "Lock"
                    THEN [@ EXCEPT !.writer = a, !.blocked = @ \ {a}]
                    ELSE [@ EXCEPT !.readers = @ \cup {a}]]
    /\ acts' = Advanced(a)
    /\ UNCHANGED <<now, ret, gameVars, roomVars, bridgeVars, sfuVars,
                   engineVars, inputVars, joinVars>>

\* Lock finds the mutex taken: the caller blocks, and RLock callers that
\* come after it block too
Await(a) ==
    /\ Running(a)
    /\ At(a).op = "Lock"
    /\ ~Admits(a)
    /\ a \notin locks[At(a).on].blocked
    /\ locks' = [locks EXCEPT ![At(a).on].blocked = @ \cup {a}]
    /\ UNCHANGED <<now, ret, acts, gameVars, roomVars, bridgeVars, sfuVars,
                   engineVars, inputVars, joinVars>>

\* Unlock or RUnlock
Release(a) ==
    /\ Running(a)
    /\ At(a).op \in {"Unlock", "RUnlock"}
    /\ locks' = [locks EXCEPT ![At(a).on] =
                    IF At(a).op = "Unlock"
                    THEN [@ EXCEPT !.writer = ""]
                    ELSE [@ EXCEPT !.readers = @ \ {a}]]
    /\ acts' = Advanced(a)
    /\ UNCHANGED <<now, ret, gameVars, roomVars, bridgeVars, sfuVars,
                   engineVars, inputVars, joinVars>>

\* a call that is not on a mutex returns
Return(a) ==
    /\ Running(a)
    /\ At(a).op = "call"
    /\ acts' = Advanced(a)
    /\ UNCHANGED <<now, ret, locks, gameVars, roomVars, bridgeVars, sfuVars,
                   engineVars, inputVars, joinVars>>

\* the gateway with one room, its goroutines between calls
InitLocks ==
    /\ now = 0
    /\ ret = NoRet
    /\ NoGame
    /\ NoRegistry
    /\ NoBridge
    /\ NewManager
    /\ NewEngine
    /\ NoInputs
    /\ acts = [a \in Goroutines |-> Resting]
    /\ locks = [l \in Mutexes |->
                  [writer |-> "", readers |-> {}, blocked |-> {}]]
    /\ NoJoins

NextLocks ==
    \/ \E a \in Goroutines, fn \in DOMAIN Programs : Begin(a, fn)
    \/ \E a \in Goroutines : Acquire(a)
    \/ \E a \in Goroutines : Await(a)
    \/ \E a \in Goroutines : Release(a)
    \/ \E a \in Goroutines : Return(a)

SpecLocks == InitLocks /\ [][NextLocks]_vars

\* C35: no goroutine holds the gateway lock, the manager lock, a room lock
\* or the registry lock while it is in a sleep, a process spawn, a socket
\* write or a network read.
C35_NoLockAcrossBlockingCall ==
    \A a \in DOMAIN acts :
        (Running(a) /\ At(a).op = "call" /\ At(a).on \in BlockingCalls)
            => Held(a) \cap {"b.mu", "m.mu", "room.mu", "r.mu"} = {}

\* the order in which the mutexes are taken when two are held
Rank == [l \in Mutexes |-> IF l \in {"gr.Mu", "room.mu"} THEN 2 ELSE 1]

\* the goroutine is in a Lock or RLock that cannot return now
Stuck(a) ==
    Running(a) /\ At(a).op \in {"Lock", "RLock"} /\ ~Admits(a)

\* the goroutines a stuck one waits for
WaitsFor(a) ==
    LET m == locks[At(a).on]
    IN (IF m.writer = "" THEN {} ELSE {m.writer})
          \cup (IF At(a).op = "Lock" THEN m.readers ELSE m.blocked)

\* C40: a goroutine that holds a mutex takes only mutexes that come later in
\* one fixed order, and no set of goroutines is stuck with each member
\* waiting for another member: some goroutine can always go on.
C40_NoDeadlock ==
    /\ \A a \in DOMAIN acts :
          (Running(a) /\ At(a).op \in {"Lock", "RLock"})
              => \A l \in Held(a) : Rank[l] < Rank[At(a).on]
    /\ \A S \in SUBSET DOMAIN acts :
          S # {} => \E a \in S : ~Stuck(a) \/ WaitsFor(a) \cap S = {}

\* the sweep holds the registry and waits for a room that a session holds
C40_Witness ==
    /\ "sweep" \in DOMAIN acts
    /\ Stuck("sweep")
    /\ Held("sweep") = {"r.mu"}
    /\ locks["room.mu"].writer = "ws"

====
